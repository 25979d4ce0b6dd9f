-------------------------- MODULE BenchSessionProofs ------------------------
(***************************************************************************)
(* Proofs about a benchmark run, for every list of rates, any buffer, any  *)
(* number of chunks and every set of faults: its types, the order of its   *)
(* tests, the framing of the control connection, and that it implements    *)
(* BenchRun.                                                               *)
(*                                                                         *)
(* The inductive invariant lists what may be on the two queues for each    *)
(* pair of states of the two ends.  A client that failed no longer says    *)
(* where it was, and the server works through what it left behind; so the  *)
(* pair is that of the server and of some state the client could be in.    *)
(* A server that ended leaves a client that reads on; that needs less.     *)
(***************************************************************************)
EXTENDS BenchSession, SumsAndQueues

PlanSet == [kind : Kinds, bw : Nat]

\* PlansInDocumentedOrder, of any list of plans.
Ordered(p) ==
  /\ \A i, j \in DOMAIN p : IsTcp(p[j].kind) /\ ~IsTcp(p[i].kind) => j < i
  /\ (\E i, j \in DOMAIN p : IsUp(p[i].kind) /\ ~IsUp(p[j].kind)) =>
       \A i \in DOMAIN p :
         IF i % 2 = 1 THEN IsUp(p[i].kind) /\ i < Len(p)
         ELSE /\ ~IsUp(p[i].kind)
              /\ p[i].bw = p[i - 1].bw
              /\ IsTcp(p[i].kind) <=> IsTcp(p[i - 1].kind)

\* The first k of the plans are TCP tests.
TcpFirst(p, k) == \A i \in 1..Len(p) : IsTcp(p[i].kind) <=> i <= k

\* Tests of one direction, TCP first, are in order.
LEMMA OneWayOrdered ==
  ASSUME NEW p \in Seq(PlanSet), NEW k \in Nat, TcpFirst(p, k), NEW up \in BOOLEAN,
         \A i \in 1..Len(p) : IsUp(p[i].kind) <=> up
  PROVE  Ordered(p)
<1>1. DOMAIN p = 1..Len(p) /\ Len(p) \in Nat
  OBVIOUS
<1>2. \A i, j \in DOMAIN p : IsTcp(p[j].kind) /\ ~IsTcp(p[i].kind) => j < i
  BY <1>1 DEF TcpFirst
<1>3. ~\E i, j \in DOMAIN p : IsUp(p[i].kind) /\ ~IsUp(p[j].kind)
  BY <1>1
<1> QED
  BY <1>2, <1>3 DEF Ordered

\* Tests in both directions, in pairs of one rate, are in order.
LEMMA PairsOrdered ==
  ASSUME NEW p \in Seq(PlanSet), NEW k \in {0, 2}, TcpFirst(p, k), Len(p) % 2 = 0,
         NEW rate, \A i \in 1..Len(p) :
           /\ IsUp(p[i].kind) <=> i % 2 = 1
           /\ p[i].bw = IF i <= k THEN 0 ELSE rate[(i - k - 1) \div 2]
  PROVE  Ordered(p)
<1>1. DOMAIN p = 1..Len(p) /\ Len(p) \in Nat
  OBVIOUS
<1>2. \A i, j \in DOMAIN p : IsTcp(p[j].kind) /\ ~IsTcp(p[i].kind) => j < i
  BY <1>1 DEF TcpFirst
<1>3. ASSUME NEW i \in 1..Len(p), i % 2 = 1 PROVE IsUp(p[i].kind) /\ i < Len(p)
  BY <1>1, <1>3
<1>4. ASSUME NEW i \in 1..Len(p), i % 2 # 1
      PROVE  /\ ~IsUp(p[i].kind)
             /\ p[i].bw = p[i - 1].bw
             /\ IsTcp(p[i].kind) <=> IsTcp(p[i - 1].kind)
  <2>1. i - 1 \in 1..Len(p) /\ (i <= k <=> i - 1 <= k)
    BY <1>1, <1>4, SMTT(30)
  <2>2. (i - k - 1) \div 2 = (i - 1 - k - 1) \div 2
    BY <1>1, <1>4, <2>1
  <2>3. p[i].bw = p[i - 1].bw
    BY <2>1, <2>2
  <2>4. IsTcp(p[i].kind) <=> IsTcp(p[i - 1].kind)
    BY <2>1 DEF TcpFirst
  <2> QED
    BY <1>4, <2>3, <2>4
<1> QED
  BY <1>1, <1>2, <1>3, <1>4 DEF Ordered

\* The UDP tests of build_plans: for each rate those of the directions.
UdpPlans(pair, rates) ==
  [i \in 1..(Len(rates) * Len(pair)) |->
     Plan(pair[((i - 1) % Len(pair)) + 1], rates[((i - 1) \div Len(pair)) + 1])]

\* A function on 1..n is a sequence of its values.
LEMMA ListOf ==
  ASSUME NEW S, NEW n \in Nat, NEW u, u = [i \in 1..n |-> u[i]], \A i \in 1..n : u[i] \in S
  PROVE  u \in Seq(S) /\ Len(u) = n
<1>1. u \in [1..n -> S]
  OBVIOUS
<1> QED
  BY <1>1

\* One direction: one test for each rate.
LEMMA UdpOneWay ==
  ASSUME NEW x \in {"udp_up", "udp_down"}, NEW rates \in Seq(Nat)
  PROVE  /\ UdpPlans(<<x>>, rates) \in Seq(PlanSet)
         /\ \A i \in 1..Len(UdpPlans(<<x>>, rates)) : UdpPlans(<<x>>, rates)[i].kind = x
<1> DEFINE u == UdpPlans(<<x>>, rates)
           L == Len(rates)
<1>1. L \in Nat /\ \A i \in 1..L : rates[i] \in Nat
  OBVIOUS
<1>2. u = [i \in 1..(L * 1) |-> Plan(<<x>>[((i - 1) % 1) + 1], rates[((i - 1) \div 1) + 1])]
  BY DEF UdpPlans
<1> HIDE DEF L
<1>3. L * 1 = L /\ \A i \in 1..L : ((i - 1) % 1) + 1 = 1 /\ ((i - 1) \div 1) + 1 = i
  BY <1>1
<1> HIDE DEF u
<1>4. /\ u = [i \in 1..L |-> u[i]]
      /\ \A i \in 1..L : u[i] = Plan(x, rates[i])
  <2>1. u = [i \in 1..(L * 1) |-> u[i]] /\ \A i \in 1..(L * 1) :
          u[i] = Plan(<<x>>[((i - 1) % 1) + 1], rates[((i - 1) \div 1) + 1])
    BY <1>2
  <2>2. <<x>>[1] = x
    OBVIOUS
  <2> QED
    BY <1>3, <2>1, <2>2
<1>5. \A i \in 1..L : Plan(x, rates[i]) \in PlanSet /\ Plan(x, rates[i]).kind = x
  BY <1>1 DEF Plan, PlanSet, Kinds
<1>6. u \in Seq(PlanSet) /\ Len(u) = L
  BY <1>1, <1>4, <1>5, ListOf
<1>7. \A i \in 1..L : u[i].kind = x
  BY <1>4, <1>5
<1> QED
  BY <1>6, <1>7 DEF u

\* Both directions: an upload and a download for each rate.
LEMMA UdpBothWays ==
  ASSUME NEW rates \in Seq(Nat)
  PROVE  LET u == UdpPlans(<<"udp_up", "udp_down">>, rates) IN
         /\ u \in Seq(PlanSet) /\ Len(u) = 2 * Len(rates)
         /\ \A i \in 1..Len(u) :
              u[i] = Plan(IF i % 2 = 1 THEN "udp_up" ELSE "udp_down", rates[((i - 1) \div 2) + 1])
<1> DEFINE pair == <<"udp_up", "udp_down">>
           u == UdpPlans(pair, rates)
           L == Len(rates)
<1>1. L \in Nat /\ \A i \in 1..L : rates[i] \in Nat
  OBVIOUS
<1>2. u = [i \in 1..(L * 2) |-> Plan(pair[((i - 1) % 2) + 1], rates[((i - 1) \div 2) + 1])]
  BY DEF UdpPlans
<1>3. pair[1] = "udp_up" /\ pair[2] = "udp_down"
  OBVIOUS
<1> HIDE DEF L, pair, u
<1>4. \A i \in 1..(L * 2) : /\ ((i - 1) % 2) + 1 = IF i % 2 = 1 THEN 1 ELSE 2
                            /\ ((i - 1) \div 2) + 1 \in 1..L
  BY <1>1
<1>5. \A i \in 1..(L * 2) :
        /\ pair[((i - 1) % 2) + 1] = IF i % 2 = 1 THEN "udp_up" ELSE "udp_down"
        /\ pair[((i - 1) % 2) + 1] \in Kinds
  BY <1>3, <1>4 DEF Kinds
<1>6. \A i \in 1..(L * 2) :
        /\ u[i] \in PlanSet
        /\ u[i] = Plan(IF i % 2 = 1 THEN "udp_up" ELSE "udp_down", rates[((i - 1) \div 2) + 1])
  BY <1>1, <1>2, <1>4, <1>5 DEF Plan, PlanSet
<1>7. L * 2 \in Nat /\ L * 2 = 2 * L
  BY <1>1
<1>8. u \in Seq(PlanSet) /\ Len(u) = L * 2
  <2>1. u = [i \in 1..(L * 2) |-> u[i]]
    BY <1>2
  <2>2. \A i \in 1..(L * 2) : u[i] \in PlanSet
    BY <1>6
  <2> QED
    BY <1>7, <2>1, <2>2, ListOf
<1> QED
  BY <1>6, <1>7, <1>8 DEF u, pair, L

\* Where the plans of a concatenation come from.
LEMMA Concatenated ==
  ASSUME NEW S, NEW t \in Seq(S), NEW u \in Seq(S)
  PROVE  /\ t \o u \in Seq(S) /\ Len(t \o u) = Len(t) + Len(u)
         /\ \A i \in 1..Len(t) : (t \o u)[i] = t[i]
         /\ \A i \in (Len(t) + 1)..(Len(t) + Len(u)) :
              (t \o u)[i] = u[i - Len(t)] /\ i - Len(t) \in 1..Len(u)
OBVIOUS

\* TCP tests before UDP tests, all of one direction.
LEMMA OneWay ==
  ASSUME NEW t \in Seq(PlanSet), NEW u \in Seq(PlanSet), NEW up \in BOOLEAN,
         \A i \in 1..Len(t) : IsTcp(t[i].kind) /\ (IsUp(t[i].kind) <=> up),
         \A i \in 1..Len(u) : ~IsTcp(u[i].kind) /\ (IsUp(u[i].kind) <=> up)
  PROVE  t \o u \in Seq(PlanSet) /\ Ordered(t \o u)
<1> DEFINE p == t \o u
<1>1. /\ p \in Seq(PlanSet) /\ Len(p) = Len(t) + Len(u)
      /\ \A i \in 1..Len(t) : p[i] = t[i]
      /\ \A i \in (Len(t) + 1)..(Len(t) + Len(u)) : p[i] = u[i - Len(t)] /\ i - Len(t) \in 1..Len(u)
  BY Concatenated
<1>2. Len(t) \in Nat /\ Len(u) \in Nat
  OBVIOUS
<1> HIDE DEF p
<1>3. ASSUME NEW i \in 1..Len(p)
      PROVE  (IsTcp(p[i].kind) <=> i <= Len(t)) /\ (IsUp(p[i].kind) <=> up)
  <2>1. CASE i <= Len(t)
    <3>1. i \in 1..Len(t)
      BY <1>1, <1>2, <1>3, <2>1
    <3> QED
      BY <1>1, <2>1, <3>1
  <2>2. CASE ~(i <= Len(t))
    <3>1. i \in (Len(t) + 1)..(Len(t) + Len(u))
      BY <1>1, <1>2, <1>3, <2>2
    <3> QED
      BY <1>1, <2>2, <3>1
  <2> QED
    BY <2>1, <2>2
<1>4. TcpFirst(p, Len(t))
  BY <1>3 DEF TcpFirst
<1>5. Ordered(p)
  BY <1>1, <1>2, <1>3, <1>4, OneWayOrdered
<1> QED
  BY <1>1, <1>5 DEF p

\* Two more or none keep the parity.
LEMMA SameParity == ASSUME NEW n \in Nat, NEW k \in {0, 2} PROVE (k + n) % 2 = n % 2
<1>1. (2 + n) % 2 = n % 2
  OBVIOUS
<1>2. (0 + n) % 2 = n % 2
  OBVIOUS
<1> QED
  BY <1>1, <1>2

\* An upload and a download over TCP, or none, before those of every rate.
LEMMA BothWays ==
  ASSUME NEW t, t = <<>> \/ t = <<Plan("tcp_up", 0), Plan("tcp_down", 0)>>,
         NEW rates \in Seq(Nat), NEW u, u = <<>> \/ u = UdpPlans(<<"udp_up", "udp_down">>, rates)
  PROVE  t \o u \in Seq(PlanSet) /\ Ordered(t \o u)
<1> DEFINE p == t \o u
           rate == [j \in Nat |-> rates[j + 1]]
<1>1. /\ t \in Seq(PlanSet) /\ Len(t) \in {0, 2}
      /\ \A i \in 1..Len(t) : /\ IsTcp(t[i].kind) /\ (IsUp(t[i].kind) <=> i % 2 = 1)
                              /\ t[i].bw = 0
  <2>1. CASE t = <<>>
    BY <2>1
  <2>2. CASE t = <<Plan("tcp_up", 0), Plan("tcp_down", 0)>>
    <3>1. /\ Plan("tcp_up", 0) \in PlanSet /\ Plan("tcp_up", 0).kind = "tcp_up"
          /\ Plan("tcp_up", 0).bw = 0
          /\ Plan("tcp_down", 0) \in PlanSet /\ Plan("tcp_down", 0).kind = "tcp_down"
          /\ Plan("tcp_down", 0).bw = 0
      BY DEF Plan, PlanSet, Kinds
    <3>2. \A S : \A a, b \in S : /\ <<a, b>> \in Seq(S) /\ Len(<<a, b>>) = 2
                                 /\ <<a, b>>[1] = a /\ <<a, b>>[2] = b
      OBVIOUS
    <3>3. t \in Seq(PlanSet) /\ Len(t) = 2 /\ t[1] = Plan("tcp_up", 0) /\ t[2] = Plan("tcp_down", 0)
      BY <2>2, <3>1, <3>2, Zenon
    <3>4. \A i \in 1..2 : i = 1 \/ i = 2
      OBVIOUS
    <3>5. 1 % 2 = 1 /\ 2 % 2 # 1
      OBVIOUS
    <3> QED
      BY <3>1, <3>3, <3>4, <3>5 DEF IsTcp, IsUp
  <2> QED
    BY <2>1, <2>2
<1>2. /\ u \in Seq(PlanSet) /\ Len(u) \in Nat /\ Len(u) % 2 = 0
      /\ \A i \in 1..Len(u) : /\ ~IsTcp(u[i].kind) /\ (IsUp(u[i].kind) <=> i % 2 = 1)
                              /\ u[i].bw = rate[(i - 1) \div 2]
  <2>1. CASE u = <<>>
    BY <2>1
  <2>2. CASE u = UdpPlans(<<"udp_up", "udp_down">>, rates)
    <3>1. /\ u \in Seq(PlanSet) /\ Len(u) = 2 * Len(rates)
          /\ \A i \in 1..Len(u) :
               u[i] = Plan(IF i % 2 = 1 THEN "udp_up" ELSE "udp_down", rates[((i - 1) \div 2) + 1])
      BY <2>2, UdpBothWays
    <3>2. Len(rates) \in Nat /\ Len(u) \in Nat /\ Len(u) % 2 = 0
      <4>1. Len(rates) \in Nat
        OBVIOUS
      <4> QED
        BY <3>1, <4>1
    <3>3. \A i \in 1..Len(u) : (i - 1) \div 2 \in Nat
      BY <3>2
    <3>4. \A i \in 1..Len(u) : /\ u[i].kind = IF i % 2 = 1 THEN "udp_up" ELSE "udp_down"
                               /\ u[i].bw = rates[((i - 1) \div 2) + 1]
      BY <3>1 DEF Plan
    <3>5. \A i \in 1..Len(u) : rate[(i - 1) \div 2] = rates[((i - 1) \div 2) + 1]
      BY <3>3
    <3> HIDE DEF rate
    <3> QED
      BY <3>1, <3>2, <3>4, <3>5 DEF IsTcp, IsUp
  <2> QED
    BY <2>1, <2>2
<1> HIDE DEF rate
<1>3. /\ p \in Seq(PlanSet) /\ Len(p) = Len(t) + Len(u)
      /\ \A i \in 1..Len(t) : p[i] = t[i]
      /\ \A i \in (Len(t) + 1)..(Len(t) + Len(u)) : p[i] = u[i - Len(t)] /\ i - Len(t) \in 1..Len(u)
  BY <1>1, <1>2, Concatenated
<1> HIDE DEF p
<1>4. ASSUME NEW i \in 1..Len(p)
      PROVE  /\ IsTcp(p[i].kind) <=> i <= Len(t)
             /\ IsUp(p[i].kind) <=> i % 2 = 1
             /\ p[i].bw = IF i <= Len(t) THEN 0 ELSE rate[(i - Len(t) - 1) \div 2]
  <2>1. CASE i <= Len(t)
    <3>1. i \in 1..Len(t)
      BY <1>1, <1>2, <1>3, <1>4, <2>1
    <3> QED
      BY <1>1, <1>3, <2>1, <3>1
  <2>2. CASE ~(i <= Len(t))
    <3>1. i \in (Len(t) + 1)..(Len(t) + Len(u))
      <4>1. Len(t) \in {0, 2} /\ Len(u) \in Nat /\ i \in 1..(Len(t) + Len(u))
        BY <1>1, <1>2, <1>3, <1>4
      <4> QED
        BY <2>2, <4>1
    <3>2. (i - Len(t)) % 2 = i % 2
      <4>1. Len(t) \in {0, 2} /\ Len(u) \in Nat
        BY <1>1, <1>2
      <4> DEFINE j == i - Len(t)
      <4>2. j \in Nat /\ Len(t) + j = i
        BY <3>1, <4>1
      <4> HIDE DEF j
      <4>3. (Len(t) + j) % 2 = j % 2
        BY <4>1, <4>2, SameParity
      <4> QED
        BY <4>2, <4>3 DEF j
    <3>3. p[i] = u[i - Len(t)] /\ i - Len(t) \in 1..Len(u)
      BY <1>3, <3>1
    <3> DEFINE j == i - Len(t)
    <3>4. ~IsTcp(u[j].kind) /\ (IsUp(u[j].kind) <=> j % 2 = 1) /\ u[j].bw = rate[(j - 1) \div 2]
      BY <1>2, <3>3
    <3> QED
      BY <2>2, <3>2, <3>3, <3>4
  <2> QED
    BY <2>1, <2>2
<1>5. TcpFirst(p, Len(t))
  BY <1>4 DEF TcpFirst
<1>6. Len(p) % 2 = 0
  <2>1. Len(t) \in {0, 2} /\ Len(u) \in Nat /\ Len(u) % 2 = 0 /\ Len(p) = Len(t) + Len(u)
    BY <1>1, <1>2, <1>3
  <2> QED
    BY <2>1, SameParity
<1>7. Ordered(p)
  BY <1>1, <1>3, <1>4, <1>5, <1>6, PairsOrdered
<1> QED
  BY <1>3, <1>7 DEF p

\* One TCP test and the UDP tests of one direction, either left out.
LEMMA OneWayPlans ==
  ASSUME NEW up \in BOOLEAN, NEW rates \in Seq(Nat), NEW t, NEW u,
         t = <<>> \/ t = <<Plan(IF up THEN "tcp_up" ELSE "tcp_down", 0)>>,
         u = <<>> \/ u = UdpPlans(<<IF up THEN "udp_up" ELSE "udp_down">>, rates)
  PROVE  t \o u \in Seq(PlanSet) /\ Ordered(t \o u)
<1> DEFINE plan == Plan(IF up THEN "tcp_up" ELSE "tcp_down", 0)
           x == IF up THEN "udp_up" ELSE "udp_down"
<1>1. plan \in PlanSet /\ IsTcp(plan.kind) /\ (IsUp(plan.kind) <=> up)
  BY DEF Plan, PlanSet, Kinds, IsTcp, IsUp
<1>2. x \in {"udp_up", "udp_down"} /\ ~IsTcp(x) /\ (IsUp(x) <=> up)
  BY DEF IsTcp, IsUp
<1>3. t = <<>> \/ t = <<plan>>
  OBVIOUS
<1>4. u = <<>> \/ u = UdpPlans(<<x>>, rates)
  OBVIOUS
<1> HIDE DEF plan, x
<1>5. t \in Seq(PlanSet) /\ \A i \in 1..Len(t) : IsTcp(t[i].kind) /\ (IsUp(t[i].kind) <=> up)
  <2>1. CASE t = <<>>
    BY <2>1
  <2>2. CASE t = <<plan>>
    BY <1>1, <2>2
  <2> QED
    BY <1>3, <2>1, <2>2
<1>6. u \in Seq(PlanSet) /\ \A i \in 1..Len(u) : ~IsTcp(u[i].kind) /\ (IsUp(u[i].kind) <=> up)
  <2>1. CASE u = <<>>
    BY <2>1
  <2>2. CASE u = UdpPlans(<<x>>, rates)
    <3>1. u \in Seq(PlanSet) /\ \A i \in 1..Len(u) : u[i].kind = x
      BY <1>2, <2>2, UdpOneWay
    <3> QED
      BY <1>2, <3>1
  <2> QED
    BY <1>4, <2>1, <2>2
<1> QED
  BY <1>5, <1>6, OneWay

\* build_plans gives tests in the documented order.
LEMMA PlansFacts ==
  ASSUME NEW m \in {"tcp", "udp", "both"}, NEW d \in {"up", "down", "both"}, NEW rates \in Seq(Nat)
  PROVE  BuildPlans(m, d, rates) \in Seq(PlanSet) /\ Ordered(BuildPlans(m, d, rates))
<1> DEFINE up   == d \in {"up", "both"}
           down == d \in {"down", "both"}
           tcp  == IF m \notin {"tcp", "both"} THEN <<>>
                   ELSE (IF up THEN <<Plan("tcp_up", 0)>> ELSE <<>>)
                        \o (IF down THEN <<Plan("tcp_down", 0)>> ELSE <<>>)
           pair == (IF up THEN <<"udp_up">> ELSE <<>>) \o (IF down THEN <<"udp_down">> ELSE <<>>)
           p == BuildPlans(m, d, rates)
           udp == IF m = "tcp" THEN <<>> ELSE UdpPlans(pair, rates)
<1>1. p = IF m = "tcp" THEN tcp ELSE tcp \o UdpPlans(pair, rates)
  BY DEF BuildPlans, UdpPlans
<1>2. \A a, b : /\ <<a>> \o <<>> = <<a>> /\ <<>> \o <<b>> = <<b>> /\ <<a>> \o <<b>> = <<a, b>>
  <2> SUFFICES ASSUME NEW a, NEW b
               PROVE  <<a>> \o <<>> = <<a>> /\ <<>> \o <<b>> = <<b>> /\ <<a>> \o <<b>> = <<a, b>>
    OBVIOUS
  <2>1. <<a>> \in Seq({a}) /\ <<b>> \in Seq({b})
    OBVIOUS
  <2> QED
    BY <2>1, ConcatNothing, ConcatOnes, Zenon
<1>3. udp = <<>> \/ udp = UdpPlans(pair, rates)
  OBVIOUS
<1>4. m = "tcp" => tcp \o udp = tcp
  <2>1. Plan("tcp_up", 0) \in PlanSet /\ Plan("tcp_down", 0) \in PlanSet
    BY DEF Plan, PlanSet, Kinds
  <2>2. \A a, b \in PlanSet : <<a>> \in Seq(PlanSet) /\ <<b>> \in Seq(PlanSet) /\ <<a, b>> \in Seq(PlanSet)
    OBVIOUS
  <2>3. <<>> \in Seq(PlanSet)
    OBVIOUS
  <2>4. tcp \in {<<>>, <<Plan("tcp_up", 0)>>, <<Plan("tcp_down", 0)>>,
                 <<Plan("tcp_up", 0), Plan("tcp_down", 0)>>}
    BY <1>2
  <2>5. tcp \in Seq(PlanSet)
    BY <2>1, <2>2, <2>3, <2>4, Zenon
  <2> HIDE DEF tcp
  <2> QED
    BY <2>5, ConcatNothing
<1>5. CASE d = "up"
  <2>1. pair = <<"udp_up">> /\ (tcp = <<>> \/ tcp = <<Plan("tcp_up", 0)>>)
    BY <1>2, <1>5
  <2>2. tcp \o udp \in Seq(PlanSet) /\ Ordered(tcp \o udp)
    BY <1>3, <2>1, OneWayPlans
  <2>3. p = tcp \o udp
    BY <1>1, <1>4, <2>1
  <2> QED
    BY <2>2, <2>3
<1>6. CASE d = "down"
  <2>1. pair = <<"udp_down">> /\ (tcp = <<>> \/ tcp = <<Plan("tcp_down", 0)>>)
    BY <1>2, <1>6
  <2>2. tcp \o udp \in Seq(PlanSet) /\ Ordered(tcp \o udp)
    BY <1>3, <2>1, OneWayPlans
  <2>3. p = tcp \o udp
    BY <1>1, <1>4, <2>1
  <2> QED
    BY <2>2, <2>3
<1>7. CASE d = "both"
  <2>1. /\ pair = <<"udp_up", "udp_down">>
        /\ tcp = <<>> \/ tcp = <<Plan("tcp_up", 0), Plan("tcp_down", 0)>>
    BY <1>2, <1>7
  <2>2. tcp \o udp \in Seq(PlanSet) /\ Ordered(tcp \o udp)
    BY <1>3, <2>1, BothWays
  <2>3. p = tcp \o udp
    BY <1>1, <1>4, <2>1
  <2> QED
    BY <2>2, <2>3
<1> QED
  BY <1>5, <1>6, <1>7

-----------------------------------------------------------------------------
\* The invariant.  The client is in a data phase with the connection open; the
\* server waits for the data path, or is anywhere between response and report.
ClientStates == {"serve", "connect", "handshake", "request", "response", "data", "up_top",
                 "up_write", "down", "udp_up", "udp_down", "report", "done", "failed"}
ListenerStates == {"none", "unbound", "listen", "closed", "failed"}
ServerStates == {"none", "handshake", "request", "accept", "await", "up", "down_top",
                 "down_write", "udp_up", "udp_down", "report", "client_report", "ended"}
Phase == {"up_top", "up_write", "down", "udp_up", "udp_down", "report"}
Fresh == {"accept", "await"}
Running == Fresh \cup {"up", "down_top", "down_write", "udp_up", "udp_down", "report"}

Untouched == tx = 0 /\ rx = 0 /\ buf = 0 /\ hello = FALSE
InStep == served = outcomes
Quiet == c2s = <<>> /\ s2c = <<>>

\* The pairs of states, c the client's, with what is on the two queues.
Unmet(c) == c \in {"serve", "connect"} /\ server = "none" /\ Quiet /\ InStep

Greeting(c) ==
  /\ c = "handshake" /\ server \in {"none", "handshake"}
  /\ c2s = <<Handshake>> /\ s2c = <<>> /\ InStep

Greeted(c) ==
  /\ c = "handshake" /\ server = "request"
  /\ c2s = <<>> /\ s2c = <<Handshake>> /\ InStep

Idle(c) == c = "request" /\ server = "request" /\ Quiet /\ InStep

Asked(c) ==
  /\ c = "response" /\ server = "request" /\ idx <= Len(plans)
  /\ c2s = <<Request(Current)>> /\ s2c = <<>> /\ InStep

Answered(c) ==
  /\ c = "response" /\ server \in Fresh /\ req = Current /\ Untouched /\ data = "bound"
  /\ c2s = <<>> /\ s2c = <<Response>> /\ InStep

Opening(c) == c = "data" /\ server \in Fresh /\ Untouched /\ data = "bound" /\ Quiet /\ InStep

Testing(c) == c \in Phase /\ server \in Running /\ Quiet /\ InStep

Reported(c) ==
  /\ c \in Phase /\ server = "client_report"
  /\ c2s = <<>> /\ s2c = <<Report(ServerCount)>> /\ InStep

\* The server has yet to read the client's figure n of the last test.
Lags(c, n) ==
  /\ n \in 0..MaxChunks
  /\ outcomes = Append(served, Outcome(req, n, ServerCount))
  /\ \/ c = "request" /\ c2s = <<Report(n)>>
     \/ c = "response" /\ c2s = <<Report(n), Request(Current)>> /\ idx <= Len(plans)
     \/ c = "done" /\ c2s = <<Report(n), Close>>

Lagging(c) == server = "client_report" /\ s2c = <<>> /\ \E n : Lags(c, n)

Closing(c) == c = "done" /\ server = "request" /\ c2s = <<Close>> /\ s2c = <<>> /\ InStep

Wires(c) ==
  \/ Unmet(c) \/ Greeting(c) \/ Greeted(c) \/ Idle(c) \/ Asked(c) \/ Answered(c)
  \/ Opening(c) \/ Testing(c) \/ Reported(c) \/ Lagging(c) \/ Closing(c)

Joined ==
  server # "ended" => \E c \in ClientStates : (client # "failed" => c = client) /\ Wires(c)

\* What a server that ended has left for the client to read.
Orphan ==
  server = "ended" =>
    /\ client = "handshake" => s2c = <<>> \/ s2c = <<Handshake>>
    /\ client \in {"request", "data"} => s2c = <<>>
    /\ client = "response" =>
         s2c = <<>> \/ s2c = <<Refusal>> \/ (s2c = <<Response>> /\ req = Current /\ Untouched)
    /\ client \in Phase => s2c = <<>> \/ (s2c = <<Report(ServerCount)>> /\ InStep)

\* What the client's and the server's own states have behind them.
ClientSide ==
  /\ client \in Phase \cup {"data", "response"} => idx <= Len(plans)
  /\ client \in Phase \cup {"data"} => req = Current
  /\ client \notin {"serve", "connect", "failed"} => plans # <<>>
  /\ client = "done" => idx = Len(plans) + 1
  /\ client = "data" => Untouched
  /\ client \in {"up_top", "up_write"} => Current.kind = "tcp_up"
  /\ client = "down" => Current.kind = "tcp_down"
  /\ client \in {"udp_up", "udp_down"} => Current.kind = client
  /\ client = "up_write" => tx < MaxChunks

ServerSide ==
  /\ server = "up" => req.kind = "tcp_up"
  /\ server \in {"down_top", "down_write"} => req.kind = "tcp_down"
  /\ server \in {"udp_up", "udp_down"} => req.kind = server
  /\ server = "accept" => req.kind \in {"tcp_up", "tcp_down"}
  /\ server = "await" => req.kind \in {"udp_up", "udp_down"}
  /\ server = "down_write" => tx < MaxChunks

\* One outcome for every plan behind the client; nothing received that was not
\* sent.
Counted == idx = Len(outcomes) + 1 /\ rx + buf <= tx

Inv ==
  /\ TypeOK
  /\ Ordered(plans)
  /\ Joined
  /\ Orphan
  /\ ClientSide
  /\ ServerSide
  /\ Counted

\* A run begins with its plans and nothing else.
LEMMA InitInv == Init => Inv
<1> SUFFICES ASSUME Init PROVE Inv
  OBVIOUS
<1>1. plans \in Seq(PlanSet) /\ Ordered(plans)
  <2>1. PICK m \in Modes, d \in Directions, r \in RateLists : plans = BuildPlans(m, d, r)
    BY DEF Init
  <2>2. m \in {"tcp", "udp", "both"} /\ d \in {"up", "down", "both"} /\ r \in Seq(Nat)
    BY SessionAssumption
  <2> QED
    BY <2>1, <2>2, PlansFacts
<1>2. Len(plans) \in Nat
  BY <1>1
<1>3. idx \in 1..(Len(plans) + 1)
  BY <1>2 DEF Init
<1>4. req \in [kind : Kinds \cup {"none"}, bw : Nat]
  BY DEF Init, Plan
<1>5. 0 \in 0..(IF IsTcp(req.kind) THEN BufCap ELSE MaxChunks) /\ 0 \in 0..MaxChunks
  BY SessionAssumption
<1>6. TypeOK
  <2>1. outcomes \in Seq(Outcomes) /\ served \in Seq(Outcomes)
    BY DEF Init
  <2>2. plans \in Seq([kind : Kinds, bw : Nat])
    BY <1>1 DEF PlanSet
  <2> QED
    BY <1>3, <1>4, <1>5, <2>1, <2>2 DEF Init, TypeOK
<1>7. Joined
  <2>1. Unmet(client) /\ client \in ClientStates
    BY DEF Init, Unmet, Quiet, InStep, ClientStates
  <2> QED
    BY <2>1 DEF Joined, Wires
<1>8. Orphan /\ ClientSide /\ ServerSide
  BY DEF Init, Orphan, ClientSide, ServerSide, Phase
<1>9. Counted
  BY DEF Init, Counted
<1> QED
  BY <1>1, <1>6, <1>7, <1>8, <1>9 DEF Inv

\* A step of messages: the data path and the tests done stay as they are,
\* whatever the in-process listener does.
LEMMA ListenerOrMessage ==
  ASSUME Inv, UNCHANGED <<testVars, pathVars>>, listener' \in ListenerStates,
         client' \in ClientStates, server' \in ServerStates,
         Joined', Orphan', ClientSide', ServerSide'
  PROVE  Inv'
<1>1. UNCHANGED <<plans, serve, target, idx, req, outcomes, served, data, hello, fin, dropped, buf, tx, rx>>
  BY DEF testVars, pathVars, linkVars
<1>2. TypeOK'
  BY <1>1 DEF Inv, TypeOK, ClientStates, ServerStates, ListenerStates
<1>3. Ordered(plans)' /\ Counted'
  BY <1>1 DEF Inv, Ordered, Counted
<1> QED
  BY <1>2, <1>3 DEF Inv

\* A step of messages that leaves the listener alone as well.
LEMMA MessageStep ==
  ASSUME Inv, UNCHANGED <<runVars, pathVars>>, client' \in ClientStates, server' \in ServerStates,
         Joined', Orphan', ClientSide', ServerSide'
  PROVE  Inv'
<1>1. UNCHANGED <<testVars, pathVars>> /\ listener' \in ListenerStates
  BY DEF runVars, Inv, TypeOK, ListenerStates
<1> QED
  BY <1>1, ListenerOrMessage

\* A step on the data path: the control connection and the tests done stay as
\* they are.
LEMMA PathStep ==
  ASSUME Inv, UNCHANGED sessVars, client' \in ClientStates, server' \in ServerStates,
         data' \in {"none", "bound", "connected"},
         buf' \in 0..(IF IsTcp(req.kind) THEN BufCap ELSE MaxChunks),
         {hello', fin', dropped'} \subseteq BOOLEAN, tx' \in 0..MaxChunks, rx' \in 0..MaxChunks,
         rx' + buf' <= tx',
         Joined', Orphan', ClientSide', ServerSide'
  PROVE  Inv'
<1>1. UNCHANGED <<plans, serve, target, listener, idx, req, outcomes, served>>
  BY DEF sessVars, runVars, testVars
<1>2. TypeOK'
  BY <1>1 DEF Inv, TypeOK, ClientStates, ServerStates
<1>3. Ordered(plans)' /\ Counted'
  BY <1>1 DEF Inv, Ordered, Counted
<1> QED
  BY <1>2, <1>3 DEF Inv

\* Wires only looks at the server, the queues, the run and the data path.
LEMMA SameWires ==
  ASSUME NEW c, Wires(c), UNCHANGED <<server, testVars, c2s, s2c, pathVars>>
  PROVE  Wires(c)'
<1>1. /\ UNCHANGED <<server, plans, serve, target, idx, req, outcomes, served, c2s, s2c>>
      /\ UNCHANGED <<data, hello, fin, dropped, buf, tx, rx>>
  BY DEF testVars, pathVars, linkVars
<1>2. UNCHANGED <<Current, ServerCount, Quiet, InStep, Untouched>>
  BY <1>1 DEF Current, ServerCount, Quiet, InStep, Untouched
<1>3. Lagging(c) => Lagging(c)'
  <2> SUFFICES ASSUME Lagging(c) PROVE Lagging(c)'
    OBVIOUS
  <2>1. PICK n : Lags(c, n)
    BY DEF Lagging
  <2>2. Lags(c, n)'
    BY <1>1, <1>2, <2>1 DEF Lags
  <2> QED
    BY <1>1, <2>2 DEF Lagging
<1>4. /\ Unmet(c) => Unmet(c)'
      /\ Greeting(c) => Greeting(c)'
      /\ Greeted(c) => Greeted(c)'
      /\ Idle(c) => Idle(c)'
      /\ Asked(c) => Asked(c)'
      /\ Answered(c) => Answered(c)'
      /\ Opening(c) => Opening(c)'
      /\ Testing(c) => Testing(c)'
      /\ Reported(c) => Reported(c)'
      /\ Closing(c) => Closing(c)'
  BY <1>1, <1>2 DEF Unmet, Greeting, Greeted, Idle, Asked, Answered, Opening, Testing, Reported, Closing
<1> QED
  BY <1>3, <1>4, Zenon DEF Wires

\* The client fails wherever it is: the server's side of the pair stays.
LEMMA ClientFailsInv == Inv /\ ClientFails => Inv'
<1> SUFFICES ASSUME Inv, ClientFails PROVE Inv'
  OBVIOUS
<1>1. client' = "failed" /\ UNCHANGED <<server, sessVars, runVars, pathVars>>
  BY DEF ClientFails, sessVars
<1>2. Joined'
  <2> SUFFICES ASSUME server # "ended" PROVE \E c \in ClientStates : Wires(c)'
    BY <1>1 DEF Joined
  <2>1. PICK c \in ClientStates : Wires(c)
    BY DEF Inv, Joined
  <2>2. Wires(c)'
    BY <1>1, <2>1, SameWires DEF sessVars, runVars
  <2> QED
    BY <2>2
<1>3. Orphan' /\ ClientSide'
  BY <1>1 DEF Orphan, ClientSide, Phase
<1>4. ServerSide'
  BY <1>1 DEF Inv, ServerSide, runVars, testVars, pathVars
<1>5. client' \in ClientStates /\ server' \in ServerStates
  BY <1>1 DEF Inv, TypeOK, ClientStates, ServerStates
<1> QED
  BY <1>1, <1>2, <1>3, <1>4, <1>5, MessageStep

\* The server's task or process ends, whatever it read last.
LEMMA ServerGoneInv ==
  ASSUME Inv, server' = "ended", listener' \in ListenerStates,
         UNCHANGED <<client, testVars, pathVars, s2c>>
  PROVE  Inv'
<1>1. UNCHANGED <<plans, serve, target, idx, req, outcomes, served, data, hello, fin, dropped, buf, tx, rx>>
  BY DEF testVars, pathVars, linkVars
<1>2. Joined' /\ ServerSide'
  BY DEF Joined, ServerSide
<1>3. ClientSide'
  BY <1>1 DEF Inv, ClientSide, Untouched, Current
<1>4. Orphan'
  <2>1. UNCHANGED <<Current, ServerCount, InStep, Untouched>>
    BY <1>1 DEF Current, ServerCount, InStep, Untouched
  <2>2. CASE server = "ended"
    BY <2>1, <2>2, <1>1 DEF Inv, Orphan
  <2>3. CASE server # "ended" /\ client # "failed"
    <3>1. Wires(client)
      BY <2>3 DEF Inv, Joined
    <3>2. client = "handshake" => s2c = <<>> \/ s2c = <<Handshake>>
      BY <3>1 DEF Wires, Unmet, Greeting, Greeted, Idle, Asked, Answered, Opening, Testing,
                  Reported, Lagging, Lags, Closing, Phase
    <3>3. client \in {"request", "data"} => s2c = <<>>
      BY <3>1 DEF Wires, Unmet, Greeting, Greeted, Idle, Asked, Answered, Opening, Testing,
                  Reported, Lagging, Lags, Closing, Phase, Quiet
    <3>4. client = "response" => s2c = <<>> \/ (s2c = <<Response>> /\ req = Current /\ Untouched)
      BY <3>1 DEF Wires, Unmet, Greeting, Greeted, Idle, Asked, Answered, Opening, Testing,
                  Reported, Lagging, Lags, Closing, Phase
    <3>5. client \in Phase => s2c = <<>> \/ (s2c = <<Report(ServerCount)>> /\ InStep)
      BY <3>1 DEF Wires, Unmet, Greeting, Greeted, Idle, Asked, Answered, Opening, Testing,
                  Reported, Lagging, Lags, Closing, Phase, Quiet
    <3> QED
      BY <1>1, <2>1, <3>2, <3>3, <3>4, <3>5 DEF Orphan
  <2>4. CASE client = "failed"
    BY <2>4 DEF Orphan, Phase
  <2> QED
    BY <2>2, <2>3, <2>4
<1>5. client' \in ClientStates /\ server' \in ServerStates
  BY DEF Inv, TypeOK, ClientStates, ServerStates
<1> QED
  BY <1>2, <1>3, <1>4, <1>5, ListenerOrMessage

\* A step of the listener alone: no end of the run moves.
LEMMA ListenerAloneInv ==
  ASSUME Inv, listener' \in ListenerStates, UNCHANGED <<client, server, testVars, c2s, s2c, pathVars>>
  PROVE  Inv'
<1>1. UNCHANGED <<plans, serve, target, idx, req, outcomes, served, data, hello, fin, dropped, buf, tx, rx>>
  BY DEF testVars, pathVars, linkVars
<1>2. Joined'
  <2> SUFFICES ASSUME server # "ended"
               PROVE  \E c \in ClientStates : (client # "failed" => c = client) /\ Wires(c)'
    BY DEF Joined
  <2>1. PICK c \in ClientStates : (client # "failed" => c = client) /\ Wires(c)
    BY DEF Inv, Joined
  <2>2. Wires(c)'
    BY <2>1, SameWires
  <2> QED
    BY <2>1, <2>2
<1>3. UNCHANGED <<Current, ServerCount, InStep, Untouched>>
  BY <1>1 DEF Current, ServerCount, InStep, Untouched
<1>4. Orphan' /\ ClientSide' /\ ServerSide'
  BY <1>1, <1>3 DEF Inv, Orphan, ClientSide, ServerSide
<1>5. client' \in ClientStates /\ server' \in ServerStates
  BY DEF Inv, TypeOK, ClientStates, ServerStates
<1> QED
  BY <1>2, <1>4, <1>5, ListenerOrMessage

\* The listener binds, or ends and takes a connection that was not accepted
\* with it.
LEMMA LocalServerInv ==
  Inv /\ (\/ LocalServerListens \/ LocalServerBindFails \/ LocalServerAcceptFails
          \/ LocalServerStops) => Inv'
<1>1. ASSUME Inv, LocalServerListens PROVE Inv'
  <2>1. listener' \in ListenerStates /\ UNCHANGED <<client, server, testVars, c2s, s2c, pathVars>>
    BY <1>1 DEF LocalServerListens, ListenerStates
  <2> QED
    BY <1>1, <2>1, ListenerAloneInv
<1>2. ASSUME Inv, NEW how \in {"closed", "failed"}, ListenerEnds(how) PROVE Inv'
  <2>1. /\ listener' \in ListenerStates /\ UNCHANGED <<client, testVars, c2s, s2c, pathVars>>
        /\ server' = "ended" \/ server' = server
    BY <1>2 DEF ListenerEnds, ListenerStates
  <2>2. CASE server' = "ended"
    BY <1>2, <2>1, <2>2, ServerGoneInv
  <2>3. CASE server' = server
    BY <1>2, <2>1, <2>3, ListenerAloneInv
  <2> QED
    BY <2>1, <2>2, <2>3
<1> QED
  BY <1>1, <1>2 DEF LocalServerBindFails, LocalServerAcceptFails, LocalServerStops

\* The client's process ends, and an in-process server with it.
LEMMA ClientAbortInv == Inv /\ ClientAbort => Inv'
<1> SUFFICES ASSUME Inv, ClientAbort PROVE Inv'
  OBVIOUS
<1>1. /\ client' = "failed" /\ server' = IF InProcess THEN "ended" ELSE server
      /\ listener' \in ListenerStates
      /\ UNCHANGED <<testVars, c2s, s2c, pathVars>>
  BY DEF ClientAbort, Inv, TypeOK, ListenerStates
<1>2. Orphan' /\ ClientSide'
  BY <1>1 DEF Orphan, ClientSide, Phase
<1>3. Joined' /\ ServerSide'
  <2>1. CASE InProcess
    BY <1>1, <2>1 DEF Joined, ServerSide
  <2>2. CASE ~InProcess
    <3>1. server' = server
      BY <1>1, <2>2
    <3>2. ServerSide'
      BY <1>1, <3>1 DEF Inv, ServerSide, testVars, pathVars
    <3>3. ASSUME server # "ended" PROVE \E c \in ClientStates : Wires(c)'
      <4>1. PICK c \in ClientStates : Wires(c)
        BY <3>3 DEF Inv, Joined
      <4> QED
        BY <1>1, <3>1, <4>1, SameWires
    <3> QED
      BY <1>1, <3>1, <3>2, <3>3 DEF Joined
  <2> QED
    BY <2>1, <2>2
<1>4. client' \in ClientStates /\ server' \in ServerStates
  BY <1>1 DEF Inv, TypeOK, ClientStates, ServerStates
<1> QED
  BY <1>1, <1>2, <1>3, <1>4, ListenerOrMessage

\* The pair of a server that has a data connection or a first datagram.
LEMMA RunningWires ==
  ASSUME NEW c, Wires(c), server \in Running,
         server \notin Fresh \/ data # "bound" \/ ~Untouched
  PROVE  Testing(c)
<1>1. /\ ~Unmet(c) /\ ~Greeting(c) /\ ~Greeted(c) /\ ~Idle(c) /\ ~Asked(c) /\ ~Answered(c)
      /\ ~Opening(c) /\ ~Reported(c) /\ ~Lagging(c) /\ ~Closing(c)
  BY DEF Unmet, Greeting, Greeted, Idle, Asked, Answered, Opening, Reported, Lagging, Closing,
         Running, Fresh
<1> QED
  BY <1>1, Zenon DEF Wires

\* A step of the server's data phase.
LEMMA ServerPathInv ==
  ASSUME Inv, server \in Running, server' \in Running,
         server \notin Fresh \/ data # "bound" \/ ~Untouched,
         UNCHANGED <<client, sessVars, data, dropped>>, {hello', fin'} \subseteq BOOLEAN,
         buf' \in 0..(IF IsTcp(req.kind) THEN BufCap ELSE MaxChunks),
         tx' \in 0..MaxChunks, rx' \in 0..MaxChunks, rx' + buf' <= tx',
         IsUp(req.kind) => tx' = tx,
         ServerSide'
  PROVE  Inv'
<1>1. UNCHANGED <<plans, serve, target, idx, req, outcomes, served, c2s, s2c>>
  BY DEF sessVars, runVars, testVars
<1>2. server # "ended" /\ server' # "ended" /\ server' \in ServerStates
  BY DEF Running, Fresh, ServerStates
<1>3. PICK c \in ClientStates : (client # "failed" => c = client) /\ Wires(c)
  BY <1>2 DEF Inv, Joined
<1>4. Testing(c)
  BY <1>3, RunningWires
<1>5. Testing(c)'
  BY <1>1, <1>4 DEF Testing, Quiet, InStep
<1>6. Joined' /\ Orphan'
  BY <1>2, <1>3, <1>5 DEF Joined, Orphan, Wires
<1>7. client # "data"
  BY <1>3, <1>4 DEF Testing, Phase
<1>8. client = "up_write" => IsUp(req.kind)
  BY DEF Inv, ClientSide, Phase, IsUp
<1>9. ClientSide'
  BY <1>1, <1>7, <1>8 DEF Inv, ClientSide, Current
<1>10. client' \in ClientStates /\ data' \in {"none", "bound", "connected"} /\ dropped' \in BOOLEAN
  BY DEF Inv, TypeOK, ClientStates
<1> QED
  BY <1>2, <1>6, <1>9, <1>10, PathStep

\* A step of the client's data phase.
LEMMA ClientPathInv ==
  ASSUME Inv, client \in Phase \cup {"data"}, client' \in Phase, UNCHANGED <<server, sessVars>>,
         data' \in {"none", "bound", "connected"},
         {hello', fin', dropped'} \subseteq BOOLEAN,
         buf' \in 0..(IF IsTcp(req.kind) THEN BufCap ELSE MaxChunks),
         tx' \in 0..MaxChunks, rx' \in 0..MaxChunks, rx' + buf' <= tx',
         IF IsUp(req.kind) THEN rx' = rx ELSE tx' = tx,
         client' \in {"up_top", "up_write"} => req.kind = "tcp_up",
         client' = "down" => req.kind = "tcp_down",
         client' \in {"udp_up", "udp_down"} => req.kind = client',
         client' = "up_write" => tx' < MaxChunks
  PROVE  Inv'
<1>1. UNCHANGED <<plans, serve, target, idx, req, outcomes, served, c2s, s2c>>
  BY DEF sessVars, runVars, testVars
<1>2. UNCHANGED <<Current, ServerCount, InStep, Quiet>>
  BY <1>1 DEF Current, ServerCount, InStep, Quiet
<1>3. /\ client # "failed" /\ client' # "failed" /\ client' \in ClientStates
      /\ client \notin {"serve", "connect", "handshake", "request", "response", "done"}
      /\ client' \notin {"serve", "connect", "handshake", "request", "response", "done", "data"}
  BY DEF Phase, ClientStates
<1>4. Joined'
  <2> SUFFICES ASSUME server # "ended" PROVE Wires(client)'
    BY <1>3 DEF Joined
  <2>1. Wires(client)
    BY <1>3 DEF Inv, Joined
  <2>2. Opening(client) \/ Testing(client) \/ Reported(client)
    BY <1>3, <2>1 DEF Wires, Unmet, Greeting, Greeted, Idle, Asked, Answered, Lagging, Lags, Closing
  <2>3. CASE Opening(client) \/ Testing(client)
    <3>1. server \in Running /\ Quiet /\ InStep
      BY <2>3 DEF Opening, Testing, Running
    <3>2. Testing(client)'
      BY <1>2, <3>1 DEF Testing
    <3> QED
      BY <3>2 DEF Wires
  <2>4. CASE Reported(client)
    <3>1. Reported(client)'
      BY <1>1, <1>2, <2>4 DEF Reported
    <3> QED
      BY <3>1 DEF Wires
  <2> QED
    BY <2>2, <2>3, <2>4
<1>5. Orphan'
  <2>1. server = "ended" => s2c = <<>> \/ (s2c = <<Report(ServerCount)>> /\ InStep)
    BY DEF Inv, Orphan
  <2> QED
    BY <1>1, <1>2, <1>3, <2>1 DEF Orphan
<1>6. ClientSide'
  <2>1. idx <= Len(plans) /\ req = Current /\ plans # <<>>
    BY <1>3 DEF Inv, ClientSide
  <2> QED
    BY <1>1, <1>2, <1>3, <2>1 DEF ClientSide
<1>7. ServerSide'
  <2>1. server = "down_write" => tx' = tx
    BY DEF Inv, ServerSide, IsUp
  <2> QED
    BY <1>1, <2>1 DEF Inv, ServerSide
<1>8. server' \in ServerStates
  BY DEF Inv, TypeOK, ServerStates
<1> QED
  BY <1>3, <1>4, <1>5, <1>6, <1>7, <1>8, PathStep

\* The network loses a datagram or the hello.
LEMMA LoseInv == Inv /\ Lose => Inv'
<1> SUFFICES ASSUME Inv, Lose PROVE Inv'
  OBVIOUS
<1>1. /\ UNCHANGED <<client, server, sessVars, data, fin, dropped, tx, rx>>
      /\ \/ buf > 0 /\ buf' = buf - 1 /\ hello' = hello
         \/ hello /\ hello' = FALSE /\ buf' = buf
  BY DEF Lose
<1>2. UNCHANGED <<plans, serve, target, idx, req, outcomes, served, c2s, s2c>>
  BY <1>1 DEF sessVars, runVars, testVars
<1>3. UNCHANGED <<Current, ServerCount, InStep, Quiet>>
  BY <1>1, <1>2 DEF Current, ServerCount, InStep, Quiet
<1>4. ~Untouched
  BY <1>1 DEF Untouched
<1>5. Joined'
  <2> SUFFICES ASSUME server # "ended" PROVE Joined'
    BY <1>1 DEF Joined
  <2>1. PICK c \in ClientStates : (client # "failed" => c = client) /\ Wires(c)
    BY DEF Inv, Joined
  <2>2. ~Answered(c) /\ ~Opening(c)
    BY <1>4 DEF Answered, Opening
  <2>3. Lagging(c) => Lagging(c)'
    <3> SUFFICES ASSUME Lagging(c) PROVE Lagging(c)'
      OBVIOUS
    <3>1. PICK n : Lags(c, n)
      BY DEF Lagging
    <3>2. Lags(c, n)'
      BY <1>1, <1>2, <1>3, <3>1 DEF Lags
    <3> QED
      BY <1>1, <1>2, <3>2 DEF Lagging
  <2>4. /\ Unmet(c) => Unmet(c)'
        /\ Greeting(c) => Greeting(c)'
        /\ Greeted(c) => Greeted(c)'
        /\ Idle(c) => Idle(c)'
        /\ Asked(c) => Asked(c)'
        /\ Testing(c) => Testing(c)'
        /\ Reported(c) => Reported(c)'
        /\ Closing(c) => Closing(c)'
    BY <1>1, <1>2, <1>3 DEF Unmet, Greeting, Greeted, Idle, Asked, Testing, Reported, Closing
  <2>5. Wires(c)'
    BY <2>1, <2>2, <2>3, <2>4, Zenon DEF Wires
  <2> QED
    BY <1>1, <2>1, <2>5 DEF Joined
<1>6. Orphan' /\ ClientSide' /\ ServerSide'
  BY <1>1, <1>2, <1>3, <1>4 DEF Inv, Orphan, ClientSide, ServerSide
<1>7. /\ client' \in ClientStates /\ server' \in ServerStates
      /\ data' \in {"none", "bound", "connected"}
      /\ {hello', fin', dropped'} \subseteq BOOLEAN /\ tx' \in 0..MaxChunks /\ rx' \in 0..MaxChunks
  BY <1>1 DEF Inv, TypeOK, ClientStates, ServerStates
<1>8. buf' \in 0..(IF IsTcp(req.kind) THEN BufCap ELSE MaxChunks) /\ rx' + buf' <= tx'
  BY <1>1, SessionAssumption DEF Inv, TypeOK, Counted
<1> QED
  BY <1>1, <1>5, <1>6, <1>7, <1>8, PathStep

\* The types of the data path, for the steps on it.
LEMMA PathTypes ==
  ASSUME Inv
  PROVE  /\ tx \in 0..MaxChunks /\ rx \in 0..MaxChunks /\ rx + buf <= tx
         /\ buf \in 0..(IF IsTcp(req.kind) THEN BufCap ELSE MaxChunks)
         /\ data \in {"none", "bound", "connected"} /\ {hello, fin, dropped} \subseteq BOOLEAN
         /\ BufCap \in Nat \ {0} /\ MaxChunks \in Nat \ {0}
BY SessionAssumption DEF Inv, TypeOK, Counted

\* The client's current plan, while it tests.
LEMMA CurrentPlan ==
  ASSUME Inv, idx <= Len(plans)
  PROVE  /\ Current \in PlanSet /\ Current.kind \in Kinds
         /\ idx \in 1..Len(plans) /\ plans \in Seq(PlanSet)
<1>1. plans \in Seq(PlanSet) /\ idx \in 1..(Len(plans) + 1)
  BY DEF Inv, TypeOK, PlanSet
<1>2. Len(plans) \in Nat
  BY <1>1
<1>3. idx \in 1..Len(plans)
  BY <1>1, <1>2
<1>4. Current \in PlanSet
  BY <1>1, <1>3 DEF Current
<1> QED
  BY <1>1, <1>3, <1>4 DEF PlanSet

\* The data connection is opened, or the hello sent.
LEMMA ClientOpensInv == Inv /\ (ClientTcpConnect \/ ClientUdpHello) => Inv'
<1> SUFFICES ASSUME Inv, ClientTcpConnect \/ ClientUdpHello PROVE Inv'
  OBVIOUS
<1>1. client = "data"
  BY DEF ClientTcpConnect, ClientUdpHello
<1>2. req = Current /\ Untouched /\ req.kind \in Kinds
  BY <1>1, CurrentPlan DEF Inv, ClientSide
<1>3. CASE ClientTcpConnect
  <2>1. /\ IsTcp(req.kind) /\ client' = IF IsUp(req.kind) THEN "up_top" ELSE "down"
        /\ data' = "connected" /\ UNCHANGED <<server, sessVars, buf, hello, fin, dropped, tx, rx>>
    BY <1>2, <1>3 DEF ClientTcpConnect
  <2>2. client' \in Phase /\ client' # "up_write" /\ client' \notin {"udp_up", "udp_down"}
    BY <2>1 DEF Phase
  <2>3. /\ client' \in {"up_top", "up_write"} => req.kind = "tcp_up"
        /\ client' = "down" => req.kind = "tcp_down"
    BY <2>1 DEF IsTcp, IsUp
  <2> QED
    BY <1>1, <2>1, <2>2, <2>3, PathTypes, ClientPathInv
<1>4. CASE ClientUdpHello
  <2>1. ~IsTcp(req.kind) /\ UNCHANGED <<server, sessVars, data, fin, dropped, rx>>
    BY <1>2, <1>4 DEF ClientUdpHello
  <2>2. CASE IsUp(req.kind)
    <3>1. client' = "udp_up" /\ tx' = 1 /\ buf' = 1 /\ hello' = hello /\ rx = 0
      BY <1>2, <1>4, <2>2 DEF ClientUdpHello, Untouched
    <3>2. req.kind = "udp_up"
      BY <1>2, <2>1, <2>2 DEF IsTcp, IsUp, Kinds
    <3>3. 1 \in 0..MaxChunks /\ rx' + buf' <= tx'
      BY <2>1, <3>1, PathTypes
    <3>4. client' \in Phase
      BY <3>1 DEF Phase
    <3> QED
      BY <1>1, <2>1, <2>2, <3>1, <3>2, <3>3, <3>4, PathTypes, ClientPathInv
  <2>3. CASE ~IsUp(req.kind)
    <3>1. client' = "udp_down" /\ hello' = TRUE /\ tx' = tx /\ buf' = buf
      BY <1>2, <1>4, <2>3 DEF ClientUdpHello
    <3>2. req.kind = "udp_down"
      BY <1>2, <2>1, <2>3 DEF IsTcp, IsUp, Kinds
    <3>3. client' \in Phase
      BY <3>1 DEF Phase
    <3> QED
      BY <1>1, <2>1, <2>3, <3>1, <3>2, <3>3, PathTypes, ClientPathInv
  <2> QED
    BY <2>2, <2>3
<1> QED
  BY <1>3, <1>4

\* The client ends its loop, or looks at its deadline.
LEMMA ClientLoopInv ==
  ASSUME Inv, client \in Phase, client' \in Phase,
         UNCHANGED <<server, sessVars, data, buf, hello, tx, rx>>, {fin', dropped'} \subseteq BOOLEAN,
         client' \in {"report", client} \/ (client = "up_top" /\ client' = "up_write" /\ tx < MaxChunks)
  PROVE  Inv'
<1>1. req = Current
  BY DEF Inv, ClientSide
<1>2. /\ client' \in {"up_top", "up_write"} => req.kind = "tcp_up"
      /\ client' = "down" => req.kind = "tcp_down"
      /\ client' \in {"udp_up", "udp_down"} => req.kind = client'
      /\ client' = "up_write" => tx' < MaxChunks
  BY <1>1 DEF Inv, ClientSide
<1> QED
  BY <1>2, PathTypes, ClientPathInv

\* The client takes something off the path.
LEMMA ClientTakesInv ==
  ASSUME Inv, client \in {"down", "udp_down"}, Take
  PROVE  Inv'
<1>1. /\ buf > 0 /\ buf' = buf - 1 /\ rx' = rx + 1
      /\ UNCHANGED <<client, server, sessVars, data, hello, fin, dropped, tx>>
  BY DEF Take, linkVars
<1>2. client \in Phase /\ client' \notin {"up_top", "up_write", "udp_up"}
  BY <1>1 DEF Phase
<1>3. /\ client = "down" => req.kind = "tcp_down"
      /\ client = "udp_down" => req.kind = "udp_down"
      /\ ~IsUp(req.kind)
  BY <1>2 DEF Inv, ClientSide, IsUp
<1>4. /\ buf' \in 0..(IF IsTcp(req.kind) THEN BufCap ELSE MaxChunks)
      /\ rx' \in 0..MaxChunks /\ rx' + buf' <= tx'
  BY <1>1, PathTypes
<1> QED
  BY <1>1, <1>2, <1>3, <1>4, PathTypes, ClientPathInv

\* The client puts something on the path.
LEMMA ClientSendsInv ==
  ASSUME Inv, ClientUpWrite \/ ClientUdpSend
  PROVE  Inv'
<1>1. /\ client \in {"up_write", "udp_up"} /\ client \in Phase
      /\ buf' = buf + 1 /\ tx' = tx + 1
      /\ client' = IF client = "up_write" THEN "up_top" ELSE client
      /\ UNCHANGED <<server, sessVars, data, hello, fin, dropped, rx>>
  BY DEF ClientUpWrite, ClientUdpSend, Send, linkVars, Phase
<1>2. /\ client = "up_write" => req.kind = "tcp_up" /\ tx < MaxChunks /\ buf < BufCap
      /\ client = "udp_up" => req.kind = "udp_up" /\ tx < MaxChunks
  BY <1>1 DEF ClientUpWrite, ClientUdpSend, Send, Inv, ClientSide
<1>3. IsUp(req.kind) /\ (IsTcp(req.kind) <=> client = "up_write") /\ client' \in Phase
  BY <1>1, <1>2 DEF IsUp, IsTcp, Phase
<1>4. /\ buf' \in 0..(IF IsTcp(req.kind) THEN BufCap ELSE MaxChunks)
      /\ tx' \in 0..MaxChunks /\ rx' + buf' <= tx'
  BY <1>1, <1>2, <1>3, PathTypes
<1> QED
  BY <1>1, <1>2, <1>3, <1>4, PathTypes, ClientPathInv

\* Every step of the client's data phases.
LEMMA ClientDataInv ==
  ASSUME Inv,
         \/ ClientTcpConnect \/ ClientUdpHello \/ ClientUpTop \/ ClientUpWrite
         \/ ClientUpWriteFails \/ ClientUpBreaks \/ ClientDownRead \/ ClientDownEof
         \/ ClientDownTimeout \/ ClientUdpSend \/ ClientUdpReceive \/ ClientUdpEnd
  PROVE  Inv'
<1>1. CASE ClientUpTop
  BY <1>1, PathTypes, ClientLoopInv DEF ClientUpTop, Phase
<1>2. CASE ClientUpWriteFails \/ ClientUpBreaks
  BY <1>2, PathTypes, ClientLoopInv DEF ClientUpWriteFails, ClientUpBreaks, EndUpload, Phase
<1>3. CASE ClientDownEof \/ ClientDownTimeout
  BY <1>3, PathTypes, ClientLoopInv DEF ClientDownEof, ClientDownTimeout, DropDownload, Phase
<1>4. CASE ClientUdpEnd
  BY <1>4, PathTypes, ClientLoopInv DEF ClientUdpEnd, pathVars, linkVars, Phase
<1>5. CASE ClientDownRead \/ ClientUdpReceive
  BY <1>5, ClientTakesInv DEF ClientDownRead, ClientUdpReceive
<1> QED
  BY <1>1, <1>2, <1>3, <1>4, <1>5, ClientOpensInv, ClientSendsInv

\* The data connection is accepted, or the first datagram received.
LEMMA ServerOpensInv ==
  ASSUME Inv, ServerAcceptData \/ ServerUdpFirst
  PROVE  Inv'
<1>1. CASE ServerAcceptData
  <2>1. /\ server = "accept" /\ data = "connected"
        /\ server' = IF IsUp(req.kind) THEN "up" ELSE "down_top"
        /\ UNCHANGED <<client, sessVars, req, data, hello, fin, dropped, buf, tx, rx>>
    BY <1>1 DEF ServerAcceptData, pathVars, linkVars, sessVars, runVars, testVars
  <2>2. server \in Running /\ server' \in Running
    BY <2>1 DEF Running, Fresh
  <2>3. ServerSide'
    BY <2>1 DEF Inv, ServerSide, IsUp
  <2> QED
    BY <2>1, <2>2, <2>3, PathTypes, ServerPathInv
<1>2. CASE ServerUdpFirst
  <2>1. server = "await" /\ UNCHANGED <<client, sessVars, req, data, fin, dropped, tx>>
    BY <1>2 DEF ServerUdpFirst, sessVars, runVars, testVars
  <2>2. CASE IsUp(req.kind)
    <3>1. buf > 0 /\ buf' = buf - 1 /\ rx' = rx + 1 /\ server' = "udp_up" /\ hello' = hello
      BY <1>2, <2>2 DEF ServerUdpFirst
    <3>2. server \in Running /\ server' \in Running /\ ~Untouched
      BY <2>1, <3>1 DEF Running, Fresh, Untouched
    <3>3. ServerSide'
      BY <2>1, <2>2, <3>1 DEF Inv, ServerSide, IsUp
    <3>4. /\ buf' \in 0..(IF IsTcp(req.kind) THEN BufCap ELSE MaxChunks)
          /\ rx' \in 0..MaxChunks /\ rx' + buf' <= tx'
      BY <2>1, <3>1, PathTypes
    <3> QED
      BY <2>1, <3>1, <3>2, <3>3, <3>4, PathTypes, ServerPathInv
  <2>3. CASE ~IsUp(req.kind)
    <3>1. hello /\ hello' = FALSE /\ server' = "udp_down" /\ buf' = buf /\ rx' = rx
      BY <1>2, <2>3 DEF ServerUdpFirst
    <3>2. server \in Running /\ server' \in Running /\ ~Untouched
      BY <2>1, <3>1 DEF Running, Fresh, Untouched
    <3>3. ServerSide'
      BY <2>1, <2>3, <3>1 DEF Inv, ServerSide, IsUp
    <3> QED
      BY <2>1, <3>1, <3>2, <3>3, PathTypes, ServerPathInv
  <2> QED
    BY <2>2, <2>3
<1> QED
  BY <1>1, <1>2

\* The server ends its loop, or looks at its deadline.
LEMMA ServerLoopInv ==
  ASSUME Inv, server \in Running \ Fresh, server' \in Running,
         UNCHANGED <<client, sessVars, data, buf, hello, dropped, tx, rx>>, fin' \in BOOLEAN,
         \/ server' = "report"
         \/ server = "down_top" /\ server' = "down_write" /\ tx < MaxChunks
  PROVE  Inv'
<1>1. req' = req
  BY DEF sessVars, runVars, testVars
<1>2. ServerSide'
  BY <1>1 DEF Inv, ServerSide
<1> QED
  BY <1>2, PathTypes, ServerPathInv

\* The server takes something off the path.
LEMMA ServerTakesInv ==
  ASSUME Inv, server \in {"up", "udp_up"}, Take
  PROVE  Inv'
<1>1. /\ buf > 0 /\ buf' = buf - 1 /\ rx' = rx + 1
      /\ UNCHANGED <<client, server, sessVars, req, data, hello, fin, dropped, tx>>
  BY DEF Take, linkVars, sessVars, runVars, testVars
<1>2. server \in Running /\ server' \in Running /\ server \notin Fresh
  BY <1>1 DEF Running, Fresh
<1>3. ServerSide'
  BY <1>1 DEF Inv, ServerSide
<1>4. /\ buf' \in 0..(IF IsTcp(req.kind) THEN BufCap ELSE MaxChunks)
      /\ rx' \in 0..MaxChunks /\ rx' + buf' <= tx'
  BY <1>1, PathTypes
<1> QED
  BY <1>1, <1>2, <1>3, <1>4, PathTypes, ServerPathInv

\* The server puts something on the path.
LEMMA ServerSendsInv ==
  ASSUME Inv, ServerDownWrite \/ ServerUdpSend
  PROVE  Inv'
<1>1. /\ server \in {"down_write", "udp_down"}
      /\ buf' = buf + 1 /\ tx' = tx + 1
      /\ server' = IF server = "down_write" THEN "down_top" ELSE server
      /\ UNCHANGED <<client, sessVars, req, data, hello, fin, dropped, rx>>
  BY DEF ServerDownWrite, ServerUdpSend, Send, linkVars, sessVars, runVars, testVars
<1>2. /\ server = "down_write" => req.kind = "tcp_down" /\ tx < MaxChunks /\ buf < BufCap
      /\ server = "udp_down" => req.kind = "udp_down" /\ tx < MaxChunks
  BY <1>1 DEF ServerDownWrite, ServerUdpSend, Send, Inv, ServerSide
<1>3. ~IsUp(req.kind) /\ (IsTcp(req.kind) <=> server = "down_write")
  BY <1>1, <1>2 DEF IsUp, IsTcp
<1>4. server \in Running /\ server' \in Running /\ server \notin Fresh
  BY <1>1 DEF Running, Fresh
<1>5. ServerSide'
  BY <1>1, <1>2 DEF ServerSide
<1>6. /\ buf' \in 0..(IF IsTcp(req.kind) THEN BufCap ELSE MaxChunks)
      /\ tx' \in 0..MaxChunks /\ rx' + buf' <= tx'
  BY <1>1, <1>2, <1>3, PathTypes
<1> QED
  BY <1>1, <1>3, <1>4, <1>5, <1>6, PathTypes, ServerPathInv

\* Every step of the server's data phases.
LEMMA ServerDataInv ==
  ASSUME Inv,
         \/ ServerAcceptData \/ ServerUpRead \/ ServerUpEof \/ ServerUpTimeout \/ ServerDownTop
         \/ ServerDownWrite \/ ServerDownWriteFails \/ ServerDownBreaks
         \/ ServerUdpFirst \/ ServerUdpReceive \/ ServerUdpSend \/ ServerUdpEnd
  PROVE  Inv'
<1>1. CASE ServerUpEof \/ ServerUpTimeout \/ ServerUdpEnd
  BY <1>1, PathTypes, ServerLoopInv
     DEF ServerUpEof, ServerUpTimeout, ServerUdpEnd, ServerPhaseEnds, pathVars, linkVars, Running, Fresh
<1>2. CASE ServerDownTop
  BY <1>2, PathTypes, ServerLoopInv DEF ServerDownTop, Running, Fresh
<1>3. CASE ServerDownWriteFails \/ ServerDownBreaks
  BY <1>3, PathTypes, ServerLoopInv DEF ServerDownWriteFails, ServerDownBreaks, EndDownload, Running, Fresh
<1>4. CASE ServerUpRead \/ ServerUdpReceive
  BY <1>4, ServerTakesInv DEF ServerUpRead, ServerUdpReceive
<1> QED
  BY <1>1, <1>2, <1>3, <1>4, ServerOpensInv, ServerSendsInv

\* The pair of a client that has not failed, and of any live server.
LEMMA LivePair ==
  ASSUME Inv, server # "ended", client # "failed"
  PROVE  Wires(client)
BY DEF Inv, Joined

\* What a step of messages leaves alone.
LEMMA Kept ==
  ASSUME UNCHANGED <<runVars, pathVars>>
  PROVE  /\ UNCHANGED <<plans, serve, target, idx, req, outcomes, served, data, hello, fin, dropped>>
         /\ UNCHANGED <<buf, tx, rx, Current, ServerCount, InStep, Untouched>>
BY DEF runVars, testVars, pathVars, linkVars, Current, ServerCount, InStep, Untouched

\* --serve: the server has its address, or could not bind.
LEMMA ClientServesInv == Inv /\ ClientServes => Inv'
<1> SUFFICES ASSUME Inv, ClientServes PROVE Inv'
  OBVIOUS
<1>1. client = "serve" /\ UNCHANGED <<server, runVars, sessVars, pathVars, c2s, s2c>>
  BY DEF ClientServes, sessVars
<1>2. CASE client' = "failed"
  BY <1>1, <1>2, ClientFailsInv DEF ClientFails
<1>3. CASE client' = "connect"
  <2>1. server # "ended" => Unmet(client)
    BY <1>1, LivePair DEF Wires, Unmet, Greeting, Greeted, Idle, Asked, Answered, Opening,
                          Testing, Reported, Lagging, Lags, Closing, Phase
  <2>2. client' \in ClientStates /\ server' \in ServerStates
    BY <1>1, <1>3 DEF Inv, TypeOK, ClientStates, ServerStates
  <2>3. server # "ended" => Unmet(client)'
    BY <1>1, <1>3, <2>1, Kept DEF Unmet, Quiet
  <2>4. Joined' /\ Orphan'
    BY <1>1, <1>3, <2>2, <2>3 DEF Joined, Wires, Orphan, Phase
  <2>5. ClientSide' /\ ServerSide'
    BY <1>1, <1>3, Kept DEF Inv, ClientSide, ServerSide, Phase
  <2> QED
    BY <1>1, <2>2, <2>4, <2>5, MessageStep
<1> QED
  BY <1>2, <1>3 DEF ClientServes

\* The connection is open and the client's handshake on it.
LEMMA ClientConnectInv == Inv /\ ClientConnect => Inv'
<1> SUFFICES ASSUME Inv, ClientConnect PROVE Inv'
  OBVIOUS
<1>1. /\ client = "connect" /\ plans # <<>> /\ server = "none" /\ client' = "handshake"
      /\ c2s' = Append(c2s, Handshake) /\ UNCHANGED <<server, runVars, pathVars, s2c>>
  BY DEF ClientConnect, Reachable
<1>2. Unmet(client)
  BY <1>1, LivePair DEF Wires, Unmet, Greeting, Greeted, Idle, Asked, Answered, Opening,
                        Testing, Reported, Lagging, Lags, Closing, Phase
<1>3. c2s' = <<Handshake>>
  BY <1>1, <1>2, AppendFirst DEF Unmet, Quiet
<1>4. Greeting(client)' /\ client' \in ClientStates /\ server' \in ServerStates
  BY <1>1, <1>2, <1>3, Kept DEF Unmet, Quiet, Greeting, Handshake, ClientStates, ServerStates
<1>5. Joined' /\ Orphan'
  BY <1>1, <1>4 DEF Joined, Wires, Orphan
<1>6. ClientSide' /\ ServerSide'
  BY <1>1, Kept DEF Inv, ClientSide, ServerSide, Phase
<1> QED
  BY <1>1, <1>4, <1>5, <1>6, MessageStep

\* The client reads the server's handshake.
LEMMA ClientHandshakeInv == Inv /\ ClientHandshake => Inv'
<1> SUFFICES ASSUME Inv, ClientHandshake PROVE Inv'
  OBVIOUS
<1>1. /\ client = "handshake" /\ s2c # <<>> /\ s2c' = Tail(s2c) /\ client' = "request"
      /\ UNCHANGED <<server, runVars, pathVars, c2s>>
  BY DEF ClientHandshake, Next1
<1>2. server # "ended" => Greeted(client)
  BY <1>1, LivePair DEF Wires, Unmet, Greeting, Greeted, Idle, Asked, Answered, Opening,
                        Testing, Reported, Lagging, Lags, Closing, Phase
<1>3. s2c = <<Handshake>>
  BY <1>1, <1>2 DEF Greeted, Inv, Orphan
<1>4. s2c' = <<>>
  BY <1>1, <1>3, OfOne
<1>5. server # "ended" => Idle(client)'
  BY <1>1, <1>2, <1>4, Kept DEF Greeted, Idle, Quiet
<1>6. client' \in ClientStates /\ server' \in ServerStates
  BY <1>1 DEF Inv, TypeOK, ClientStates, ServerStates
<1>7. Joined' /\ Orphan'
  BY <1>1, <1>4, <1>5, <1>6 DEF Joined, Wires, Orphan, Phase
<1>8. ClientSide' /\ ServerSide'
  BY <1>1, Kept DEF Inv, ClientSide, ServerSide, Phase
<1> QED
  BY <1>1, <1>6, <1>7, <1>8, MessageStep

\* The pair of a client at the head of its plan loop.
LEMMA RequestPair ==
  ASSUME Inv, client = "request", server # "ended"
  PROVE  Idle(client) \/ Lagging(client)
BY LivePair DEF Wires, Unmet, Greeting, Greeted, Idle, Asked, Answered, Opening,
                Testing, Reported, Lagging, Lags, Closing, Phase

\* The client requests the next test, perhaps before its report was read.
LEMMA ClientRequestInv == Inv /\ ClientRequest => Inv'
<1> SUFFICES ASSUME Inv, ClientRequest PROVE Inv'
  OBVIOUS
<1>1. /\ client = "request" /\ idx <= Len(plans) /\ c2s' = Append(c2s, Request(Current))
      /\ client' = "response" /\ UNCHANGED <<server, runVars, pathVars, s2c>>
  BY DEF ClientRequest
<1>2. server # "ended" => Wires(client)'
  <2>1. CASE Idle(client)
    <3>1. c2s' = <<Request(Current)>>
      BY <1>1, <2>1, AppendFirst DEF Idle, Quiet
    <3>2. Asked(client)'
      BY <1>1, <2>1, <3>1, Kept DEF Idle, Quiet, Asked, Request
    <3> QED
      BY <3>2 DEF Wires
  <2>2. CASE Lagging(client)
    <3>1. PICK n : Lags(client, n)
      BY <2>2 DEF Lagging
    <3>2. n \in 0..MaxChunks /\ outcomes = Append(served, Outcome(req, n, ServerCount)) /\ c2s = <<Report(n)>>
      BY <1>1, <3>1 DEF Lags
    <3>3. c2s' = <<Report(n), Request(Current)>>
      BY <1>1, <3>2, AppendSecond
    <3>4. Lags(client, n)'
      BY <1>1, <3>2, <3>3, Kept DEF Lags, Request
    <3>5. Lagging(client)'
      BY <1>1, <2>2, <3>4 DEF Lagging
    <3> QED
      BY <3>5 DEF Wires
  <2> QED
    BY <1>1, <2>1, <2>2, RequestPair
<1>3. client' \in ClientStates /\ server' \in ServerStates
  BY <1>1 DEF Inv, TypeOK, ClientStates, ServerStates
<1>4. Joined' /\ Orphan'
  BY <1>1, <1>2, <1>3 DEF Joined, Inv, Orphan, Phase
<1>5. ClientSide' /\ ServerSide'
  BY <1>1, Kept DEF Inv, ClientSide, ServerSide, Phase
<1> QED
  BY <1>1, <1>3, <1>4, <1>5, MessageStep

\* The client closes the session after its last plan.
LEMMA ClientCloseInv == Inv /\ ClientClose => Inv'
<1> SUFFICES ASSUME Inv, ClientClose PROVE Inv'
  OBVIOUS
<1>1. /\ client = "request" /\ idx > Len(plans) /\ c2s' = Append(c2s, Close)
      /\ client' = "done" /\ UNCHANGED <<server, runVars, pathVars, s2c>>
  BY DEF ClientClose
<1>2. server # "ended" => Wires(client)'
  <2>1. CASE Idle(client)
    <3>1. c2s' = <<Close>>
      BY <1>1, <2>1, AppendFirst DEF Idle, Quiet
    <3>2. Closing(client)'
      BY <1>1, <2>1, <3>1, Kept DEF Idle, Quiet, Closing, Close
    <3> QED
      BY <3>2 DEF Wires
  <2>2. CASE Lagging(client)
    <3>1. PICK n : Lags(client, n)
      BY <2>2 DEF Lagging
    <3>2. n \in 0..MaxChunks /\ outcomes = Append(served, Outcome(req, n, ServerCount)) /\ c2s = <<Report(n)>>
      BY <1>1, <3>1 DEF Lags
    <3>3. c2s' = <<Report(n), Close>>
      BY <1>1, <3>2, AppendSecond
    <3>4. Lags(client, n)'
      BY <1>1, <3>2, <3>3, Kept DEF Lags, Close
    <3>5. Lagging(client)'
      BY <1>1, <2>2, <3>4 DEF Lagging
    <3> QED
      BY <3>5 DEF Wires
  <2> QED
    BY <1>1, <2>1, <2>2, RequestPair
<1>3. client' \in ClientStates /\ server' \in ServerStates
  BY <1>1 DEF Inv, TypeOK, ClientStates, ServerStates
<1>4. Joined' /\ Orphan'
  BY <1>1, <1>2, <1>3 DEF Joined, Inv, Orphan, Phase
<1>5. idx = Len(plans) + 1
  <2>1. plans \in Seq(PlanSet) /\ idx \in 1..(Len(plans) + 1)
    BY DEF Inv, TypeOK, PlanSet
  <2>2. Len(plans) \in Nat
    BY <2>1
  <2> QED
    BY <1>1, <2>1, <2>2
<1>6. ClientSide' /\ ServerSide'
  BY <1>1, <1>5, Kept DEF Inv, ClientSide, ServerSide, Phase
<1> QED
  BY <1>1, <1>3, <1>4, <1>6, MessageStep

\* The client reads the response: the data port is open and unused.
LEMMA ClientResponseInv == Inv /\ ClientResponse => Inv'
<1> SUFFICES ASSUME Inv, ClientResponse PROVE Inv'
  OBVIOUS
<1>1. /\ client = "response" /\ s2c # <<>> /\ s2c' = Tail(s2c) /\ client' = "data"
      /\ UNCHANGED <<server, runVars, pathVars, c2s>> /\ Head(s2c).status = "ok"
  BY DEF ClientResponse, Next1
<1>2. server # "ended" => Answered(client)
  BY <1>1, LivePair DEF Wires, Unmet, Greeting, Greeted, Idle, Asked, Answered, Opening,
                        Testing, Reported, Lagging, Lags, Closing, Phase
<1>3. s2c = <<Response>> /\ req = Current /\ Untouched
  <2>1. s2c # <<Refusal>>
    BY <1>1, OfOne DEF Refusal
  <2> QED
    BY <1>1, <1>2, <2>1 DEF Answered, Inv, Orphan
<1>4. s2c' = <<>>
  BY <1>1, <1>3, OfOne
<1>5. server # "ended" => Opening(client)'
  BY <1>1, <1>2, <1>3, <1>4, Kept DEF Answered, Opening, Quiet
<1>6. client' \in ClientStates /\ server' \in ServerStates
  BY <1>1 DEF Inv, TypeOK, ClientStates, ServerStates
<1>7. Joined' /\ Orphan'
  BY <1>1, <1>4, <1>5, <1>6 DEF Joined, Wires, Orphan, Phase
<1>8. ClientSide' /\ ServerSide'
  BY <1>1, <1>3, Kept DEF Inv, ClientSide, ServerSide, Phase
<1> QED
  BY <1>1, <1>6, <1>7, <1>8, MessageStep

\* What the client reads in a report is what the server counted.
LEMMA ReportRead ==
  ASSUME Inv, client = "report", s2c # <<>>
  PROVE  /\ s2c = <<Report(ServerCount)>> /\ InStep /\ req = Current
         /\ server # "ended" => server = "client_report" /\ c2s = <<>>
         /\ Head(s2c).count = ServerCount /\ Tail(s2c) = <<>>
<1>1. client \in Phase /\ client # "failed"
  BY DEF Phase
<1>2. server # "ended" => Reported(client)
  BY <1>1, LivePair DEF Wires, Unmet, Greeting, Greeted, Idle, Asked, Answered, Opening,
                        Testing, Reported, Lagging, Lags, Closing, Quiet
<1>3. s2c = <<Report(ServerCount)>> /\ InStep
  BY <1>1, <1>2 DEF Reported, Inv, Orphan
<1>4. Head(s2c) = Report(ServerCount) /\ Tail(s2c) = <<>>
  BY <1>3, OfOne
<1>5. Head(s2c).count = ServerCount
  BY <1>4 DEF Report
<1> QED
  BY <1>1, <1>2, <1>3, <1>4, <1>5 DEF Reported, Inv, ClientSide

\* The outcome of the current test is one a run may have.
LEMMA OutcomeOf ==
  ASSUME Inv, client = "report", req = Current
  PROVE  /\ Outcome(Current, ClientCount, ServerCount) =
              [plan |-> Current, sent |-> tx, received |-> rx]
         /\ Outcome(Current, ClientCount, ServerCount) \in Outcomes
         /\ ClientCount \in 0..MaxChunks /\ rx <= tx
<1>1. Current \in PlanSet /\ idx <= Len(plans)
  BY CurrentPlan DEF Inv, ClientSide, Phase
<1>2. ClientCount = IF IsUp(Current.kind) THEN tx ELSE rx
  BY DEF ClientCount
<1>3. ServerCount = IF IsUp(Current.kind) THEN rx ELSE tx
  BY DEF ServerCount
<1>4. Outcome(Current, ClientCount, ServerCount) = [plan |-> Current, sent |-> tx, received |-> rx]
  BY <1>2, <1>3 DEF Outcome
<1>5. tx \in 0..MaxChunks /\ rx \in 0..MaxChunks /\ rx <= tx
  <2>1. /\ tx \in 0..MaxChunks /\ rx \in 0..MaxChunks /\ rx + buf <= tx
        /\ buf \in 0..(IF IsTcp(req.kind) THEN BufCap ELSE MaxChunks)
        /\ MaxChunks \in Nat /\ BufCap \in Nat
    BY PathTypes
  <2> QED
    BY <2>1
<1> QED
  BY <1>1, <1>2, <1>4, <1>5 DEF Outcomes, PlanSet

\* The client reads the server's report and writes its own.
LEMMA ClientReportInv == Inv /\ ClientReport => Inv'
<1> SUFFICES ASSUME Inv, ClientReport PROVE Inv'
  OBVIOUS
<1>1. /\ client = "report" /\ s2c # <<>> /\ s2c' = Tail(s2c) /\ client' = "request"
      /\ c2s' = Append(c2s, Report(ClientCount))
      /\ outcomes' = Append(outcomes, Outcome(Current, ClientCount, Head(s2c).count))
      /\ idx' = idx + 1
      /\ UNCHANGED <<server, data, hello, fin, dropped, buf, tx, rx, plans, serve, target, listener, req, served>>
  BY DEF ClientReport, Next1, pathVars, linkVars
<1>2. /\ InStep /\ req = Current
      /\ server # "ended" => server = "client_report" /\ c2s = <<>>
      /\ Head(s2c).count = ServerCount /\ s2c' = <<>>
  BY <1>1, ReportRead
<1>3. PICK n : n = ClientCount
  OBVIOUS
<1> DEFINE o == Outcome(Current, n, ServerCount)
<1>4. o \in Outcomes /\ n \in 0..MaxChunks
  BY <1>1, <1>2, <1>3, OutcomeOf
<1>5. outcomes' = Append(outcomes, o) /\ o = Outcome(req, n, ServerCount)
  BY <1>1, <1>2, <1>3
<1>6. ServerCount' = ServerCount
  BY <1>1 DEF ServerCount
<1>7. Outcome(req, n, ServerCount) = Outcome(req', n, ServerCount')
  BY <1>1, <1>6
<1>8. c2s' = Append(c2s, Report(n))
  BY <1>1, <1>3
<1> HIDE DEF o
<1>9. /\ outcomes \in Seq(Outcomes) /\ outcomes' \in Seq(Outcomes)
      /\ Len(outcomes') = Len(outcomes) + 1
  BY <1>4, <1>5 DEF Inv, TypeOK
<1>10. idx <= Len(plans) /\ idx' \in 1..(Len(plans) + 1) /\ idx' = Len(outcomes') + 1
  <2>1. idx <= Len(plans) /\ idx = Len(outcomes) + 1
    BY <1>1 DEF Inv, ClientSide, Counted, Phase
  <2>2. idx \in 1..Len(plans) /\ plans \in Seq(PlanSet)
    BY <2>1, CurrentPlan
  <2>3. Len(plans) \in Nat
    BY <2>2
  <2>4. Len(outcomes) \in Nat
    BY <1>9
  <2> QED
    BY <1>1, <1>9, <2>1, <2>2, <2>3, <2>4
<1>11. TypeOK'
  BY <1>1, <1>9, <1>10 DEF Inv, TypeOK
<1>12. Joined'
  <2> SUFFICES ASSUME server # "ended" PROVE Wires(client)'
    BY <1>1 DEF Joined, ClientStates
  <2>1. c2s' = <<Report(n)>>
    BY <1>2, <1>8, AppendFirst
  <2>2. outcomes' = Append(served', Outcome(req', n, ServerCount'))
    BY <1>1, <1>2, <1>5, <1>7 DEF InStep
  <2>3. Lags(client, n)'
    BY <1>1, <1>4, <2>1, <2>2 DEF Lags
  <2>4. Lagging(client)'
    BY <1>1, <1>2, <2>3 DEF Lagging
  <2> QED
    BY <2>4 DEF Wires
<1>13. Orphan'
  BY <1>1, <1>2 DEF Orphan, Phase
<1>14. ClientSide'
  BY <1>1 DEF Inv, ClientSide, Phase
<1>15. ServerSide' /\ Counted' /\ Ordered(plans)'
  BY <1>1, <1>10 DEF Inv, ServerSide, Counted, Ordered
<1> QED
  BY <1>11, <1>12, <1>13, <1>14, <1>15 DEF Inv

\* The control messages of the server.  It cannot tell a failed client from a
\* silent one: its side is that of a client that would still be in state c.
LEMMA LiveServer ==
  ASSUME Inv, server # "ended"
  PROVE  \E c \in ClientStates : (client # "failed" => c = client) /\ Wires(c)
BY DEF Inv, Joined

\* A step of the server that reads or writes a message between two tests.
LEMMA ServerMessageInv ==
  ASSUME Inv, NEW c \in ClientStates, client # "failed" => c = client, Wires(c)',
         server' \in {"handshake", "request", "client_report"},
         UNCHANGED <<client, runVars, pathVars>>
  PROVE  Inv'
<1>1. Joined' /\ Orphan' /\ ServerSide'
  BY DEF Joined, Orphan, ServerSide
<1>2. ClientSide'
  BY Kept DEF Inv, ClientSide
<1>3. client' \in ClientStates /\ server' \in ServerStates
  BY DEF Inv, TypeOK, ClientStates, ServerStates
<1> QED
  BY <1>1, <1>2, <1>3, MessageStep

\* The listener hands the connection to a session.
LEMMA ServerAcceptInv == Inv /\ ServerAccept => Inv'
<1> SUFFICES ASSUME Inv, ServerAccept PROVE Inv'
  OBVIOUS
<1>1. /\ server = "none" /\ c2s # <<>> /\ server' = "handshake"
      /\ UNCHANGED <<client, runVars, pathVars, c2s, s2c>>
  BY DEF ServerAccept, Reachable, sessVars
<1>2. PICK c \in ClientStates : (client # "failed" => c = client) /\ Wires(c)
  BY <1>1, LiveServer
<1>3. Greeting(c)
  BY <1>1, <1>2 DEF Wires, Unmet, Greeting, Greeted, Idle, Asked, Answered, Opening,
                    Testing, Reported, Lagging, Lags, Closing, Running, Fresh, Quiet
<1>4. Greeting(c)'
  BY <1>1, <1>3, Kept DEF Greeting
<1>5. Wires(c)'
  BY <1>4 DEF Wires
<1> QED
  BY <1>1, <1>2, <1>5, ServerMessageInv

\* The server reads the client's handshake and answers it.
LEMMA ServerHandshakeInv == Inv /\ ServerHandshake => Inv'
<1> SUFFICES ASSUME Inv, ServerHandshake PROVE Inv'
  OBVIOUS
<1>1. /\ server = "handshake" /\ c2s' = Tail(c2s) /\ s2c' = Append(s2c, Handshake)
      /\ server' = "request" /\ UNCHANGED <<client, runVars, pathVars>>
  BY DEF ServerHandshake
<1>2. PICK c \in ClientStates : (client # "failed" => c = client) /\ Wires(c)
  BY <1>1, LiveServer
<1>3. Greeting(c)
  BY <1>1, <1>2 DEF Wires, Unmet, Greeting, Greeted, Idle, Asked, Answered, Opening,
                    Testing, Reported, Lagging, Lags, Closing, Running, Fresh
<1>4. c2s' = <<>> /\ s2c' = <<Handshake>>
  BY <1>1, <1>3, OfOne, AppendFirst DEF Greeting
<1>5. Greeted(c)'
  BY <1>1, <1>3, <1>4, Kept DEF Greeting, Greeted, Handshake
<1>6. Wires(c)'
  BY <1>5 DEF Wires
<1> QED
  BY <1>1, <1>2, <1>6, ServerMessageInv

\* The server writes its report: what it counted stays until the next test.
LEMMA ServerReportInv == Inv /\ ServerReport => Inv'
<1> SUFFICES ASSUME Inv, ServerReport PROVE Inv'
  OBVIOUS
<1>1. /\ server = "report" /\ s2c' = Append(s2c, Report(ServerCount))
      /\ server' = "client_report" /\ UNCHANGED <<client, runVars, pathVars, c2s>>
  BY DEF ServerReport
<1>2. PICK c \in ClientStates : (client # "failed" => c = client) /\ Wires(c)
  BY <1>1, LiveServer
<1>3. Testing(c)
  BY <1>1, <1>2, RunningWires DEF Running, Fresh
<1>4. c2s' = <<>> /\ s2c' = <<Report(ServerCount)>>
  BY <1>1, <1>3, AppendFirst DEF Testing, Quiet
<1>5. s2c' = <<Report(ServerCount')>>
  BY <1>1, <1>4, Kept
<1>6. Reported(c)'
  BY <1>1, <1>3, <1>4, <1>5, Kept DEF Testing, Reported, Report
<1>7. Wires(c)'
  BY <1>6 DEF Wires
<1> QED
  BY <1>1, <1>2, <1>7, ServerMessageInv

\* A request the server reads is the client's current plan.
LEMMA RequestRead ==
  ASSUME Inv, server = "request", c2s # <<>>, Head(c2s) # Close
  PROVE  \E c \in ClientStates : /\ client # "failed" => c = client
                                 /\ Asked(c) /\ Head(c2s) = Request(Current) /\ Tail(c2s) = <<>>
<1>1. PICK c \in ClientStates : (client # "failed" => c = client) /\ Wires(c)
  BY LiveServer
<1>2. ~Closing(c)
  BY OfOne DEF Closing
<1>3. Asked(c)
  BY <1>1, <1>2 DEF Wires, Unmet, Greeting, Greeted, Idle, Asked, Answered, Opening,
                    Testing, Reported, Lagging, Lags, Running, Fresh, Quiet
<1> QED
  BY <1>1, <1>3, OfOne DEF Asked

\* The server opens a data port for the requested test and answers.
LEMMA ServerOpenInv == Inv /\ ServerOpen => Inv'
<1> SUFFICES ASSUME Inv, ServerOpen PROVE Inv'
  OBVIOUS
<1>1. /\ server = "request" /\ c2s # <<>> /\ Head(c2s) # Close
      /\ c2s' = Tail(c2s) /\ s2c' = Append(s2c, Response) /\ req' = Head(c2s).plan
      /\ data' = "bound" /\ buf' = 0 /\ hello' = FALSE /\ fin' = FALSE /\ dropped' = FALSE
      /\ tx' = 0 /\ rx' = 0
      /\ server' = IF IsTcp(Head(c2s).plan.kind) THEN "accept" ELSE "await"
      /\ UNCHANGED <<client, plans, serve, target, listener, idx, outcomes, served>>
  BY DEF ServerOpen, Next1
<1>2. PICK c \in ClientStates : /\ client # "failed" => c = client
                                /\ Asked(c) /\ Head(c2s) = Request(Current) /\ Tail(c2s) = <<>>
  BY <1>1, RequestRead
<1>3. req' = Current /\ Current' = Current
  BY <1>1, <1>2 DEF Request, Current
<1>4. Current \in PlanSet
  BY <1>2, CurrentPlan DEF Asked
<1>5. server' = IF IsTcp(Current.kind) THEN "accept" ELSE "await"
  BY <1>1, <1>3
<1>6. c2s' = <<>> /\ s2c' = <<Response>>
  BY <1>1, <1>2, AppendFirst DEF Asked
<1>7. TypeOK'
  <2>1. req' \in [kind : Kinds \cup {"none"}, bw : Nat]
    BY <1>3, <1>4 DEF PlanSet
  <2>2. 0 \in 0..(IF IsTcp(req'.kind) THEN BufCap ELSE MaxChunks) /\ 0 \in 0..MaxChunks
    BY SessionAssumption
  <2> QED
    BY <1>1, <1>5, <2>1, <2>2 DEF Inv, TypeOK
<1>8. Answered(c)'
  BY <1>1, <1>2, <1>3, <1>5, <1>6 DEF Asked, Answered, Fresh, Untouched, InStep, Response
<1>9. Joined' /\ Orphan'
  BY <1>1, <1>2, <1>5, <1>8 DEF Joined, Wires, Orphan
<1>10. client \in {"response", "failed"}
  BY <1>2 DEF Asked
<1>11. ClientSide'
  BY <1>1, <1>10 DEF Inv, ClientSide, Phase
<1>12. ServerSide'
  BY <1>3, <1>4, <1>5 DEF ServerSide, PlanSet, Kinds, IsTcp
<1>13. Ordered(plans)' /\ Counted'
  BY <1>1 DEF Inv, Ordered, Counted
<1> QED
  BY <1>7, <1>9, <1>11, <1>12, <1>13 DEF Inv

\* The report the server reads completes the test the client has counted.
LEMMA ReportReadBack ==
  ASSUME Inv, server = "client_report", c2s # <<>>
  PROVE  \E c \in ClientStates, n \in 0..MaxChunks :
           /\ client # "failed" => c = client
           /\ Lags(c, n) /\ s2c = <<>> /\ Head(c2s).count = n
           /\ outcomes = Append(served, Outcome(req, n, ServerCount))
<1>1. PICK c \in ClientStates : (client # "failed" => c = client) /\ Wires(c)
  BY LiveServer
<1>2. Lagging(c)
  BY <1>1 DEF Wires, Unmet, Greeting, Greeted, Idle, Asked, Answered, Opening,
              Testing, Reported, Closing, Running, Fresh, Quiet
<1>3. PICK n : Lags(c, n)
  BY <1>2 DEF Lagging
<1>4. Head(c2s) = Report(n)
  BY <1>3, OfOne, HeadOfPair DEF Lags
<1> QED
  BY <1>1, <1>2, <1>3, <1>4 DEF Lagging, Lags, Report

\* The server completes the test: both ends hold the same outcomes again.
LEMMA ServerTestDoneInv == Inv /\ ServerTestDone => Inv'
<1> SUFFICES ASSUME Inv, ServerTestDone PROVE Inv'
  OBVIOUS
<1>1. /\ server = "client_report" /\ c2s # <<>> /\ c2s' = Tail(c2s)
      /\ served' = Append(served, Outcome(req, Head(c2s).count, ServerCount))
      /\ data' = "none" /\ server' = "request"
      /\ UNCHANGED <<client, plans, serve, target, listener, s2c, idx, req, buf, hello, fin, dropped, tx, rx, outcomes>>
  BY DEF ServerTestDone, Next1
<1>2. PICK c \in ClientStates, n \in 0..MaxChunks :
           /\ client # "failed" => c = client
           /\ Lags(c, n) /\ s2c = <<>> /\ Head(c2s).count = n
           /\ outcomes = Append(served, Outcome(req, n, ServerCount))
  BY <1>1, ReportReadBack
<1>3. served' = outcomes /\ InStep' /\ s2c' = <<>> /\ Current' = Current
  BY <1>1, <1>2 DEF InStep, Current
<1>4. Wires(c)'
  <2>1. CASE c = "request" /\ c2s = <<Report(n)>>
    <3>1. c2s' = <<>>
      BY <1>1, <2>1, OfOne
    <3>2. Idle(c)'
      BY <1>1, <1>3, <2>1, <3>1 DEF Idle, Quiet
    <3> QED
      BY <3>2 DEF Wires
  <2>2. CASE c = "response" /\ c2s = <<Report(n), Request(Current)>> /\ idx <= Len(plans)
    <3>1. c2s' = <<Request(Current)>>
      BY <1>1, <2>2, TailOfPair
    <3>2. Asked(c)'
      BY <1>1, <1>3, <2>2, <3>1 DEF Asked, Request
    <3> QED
      BY <3>2 DEF Wires
  <2>3. CASE c = "done" /\ c2s = <<Report(n), Close>>
    <3>1. c2s' = <<Close>>
      BY <1>1, <2>3, TailOfPair
    <3>2. Closing(c)'
      BY <1>1, <1>3, <2>3, <3>1 DEF Closing, Close
    <3> QED
      BY <3>2 DEF Wires
  <2> QED
    BY <1>2, <2>1, <2>2, <2>3 DEF Lags
<1>5. Joined' /\ Orphan' /\ ServerSide'
  BY <1>1, <1>2, <1>4 DEF Joined, Orphan, ServerSide
<1>6. TypeOK'
  BY <1>1, <1>3 DEF Inv, TypeOK
<1>7. ClientSide'
  BY <1>1, <1>3 DEF Inv, ClientSide, Untouched
<1>8. Ordered(plans)' /\ Counted'
  BY <1>1 DEF Inv, Ordered, Counted
<1> QED
  BY <1>5, <1>6, <1>7, <1>8 DEF Inv

-----------------------------------------------------------------------------
\* The client fails: an error returned from run_inner at one of its waits.
ClientErrors ==
  \/ ClientRefuses \/ ClientConnectFails \/ ClientRejected \/ ClientEof \/ ClientWriteFails
  \/ ClientDataFails \/ ClientDataBreaks

\* The listener, which is no end of the run.
LocalServer ==
  \/ LocalServerListens \/ LocalServerBindFails \/ LocalServerAcceptFails \/ LocalServerStops

\* The server's task ends: the session is over, or an error returned from it.
ServerExits ==
  \/ ServerClose \/ ServerBindFails \/ ServerEof \/ ServerCrash \/ ServerReadBreaks

\* The session ends and leaves the listener alone.
LEMMA ServerExitInv ==
  ASSUME Inv, server' = "ended", UNCHANGED <<client, runVars, pathVars, s2c>>
  PROVE  Inv'
<1>1. listener' \in ListenerStates /\ UNCHANGED testVars
  BY DEF Inv, TypeOK, ListenerStates, runVars
<1> QED
  BY <1>1, ServerGoneInv

\* A refused request: the client is left with the refusal to read.
LEMMA ServerRefusesInv == Inv /\ ServerRefuses => Inv'
<1> SUFFICES ASSUME Inv, ServerRefuses PROVE Inv'
  OBVIOUS
<1>1. /\ server = "request" /\ c2s # <<>> /\ Head(c2s) # Close
      /\ s2c' = Append(s2c, Refusal) /\ server' = "ended"
      /\ UNCHANGED <<client, runVars, pathVars>>
  BY DEF ServerRefuses, Next1
<1>2. PICK c \in ClientStates : (client # "failed" => c = client) /\ Asked(c)
  BY <1>1, RequestRead
<1>3. s2c' = <<Refusal>>
  BY <1>1, <1>2, AppendFirst DEF Asked
<1>4. client \in {"response", "failed"}
  BY <1>2 DEF Asked
<1>5. Joined' /\ Orphan' /\ ServerSide'
  BY <1>1, <1>3, <1>4 DEF Joined, Orphan, ServerSide, Phase, Refusal
<1>6. ClientSide'
  BY <1>1, Kept DEF Inv, ClientSide
<1>7. client' \in ClientStates /\ server' \in ServerStates
  BY <1>1 DEF Inv, TypeOK, ClientStates, ServerStates
<1> QED
  BY <1>1, <1>5, <1>6, <1>7, MessageStep

\* The steps that end one of the two sides keep the invariant.
LEMMA EndingsInv == Inv /\ (ClientErrors \/ ServerExits) => Inv'
<1> SUFFICES ASSUME Inv, ClientErrors \/ ServerExits PROVE Inv'
  OBVIOUS
<1>1. CASE ClientErrors
  <2>1. ClientFails
    BY <1>1 DEF ClientErrors, ClientRefuses, ClientConnectFails, ClientRejected, ClientEof, ClientWriteFails,
                ClientDataFails, ClientDataBreaks
  <2> QED
    BY <2>1, ClientFailsInv
<1>2. CASE ServerExits
  <2>1. CASE ServerClose \/ ServerBindFails
    BY <2>1, ServerExitInv DEF ServerClose, ServerBindFails
  <2>2. CASE ~(ServerClose \/ ServerBindFails)
    <3>1. ServerEnds
      BY <1>2, <2>2 DEF ServerExits, ServerEof, ServerCrash, ServerReadBreaks
    <3>2. server' = "ended" /\ UNCHANGED <<client, runVars, pathVars, s2c>>
      BY <3>1 DEF ServerEnds, sessVars
    <3> QED
      BY <3>2, ServerExitInv
  <2> QED
    BY <2>1, <2>2
<1> QED
  BY <1>1, <1>2

\* A step that changes nothing keeps the invariant.
LEMMA StutterInv == Inv /\ UNCHANGED vars => Inv'
<1> SUFFICES ASSUME Inv, UNCHANGED vars PROVE Inv'
  OBVIOUS
<1>1. listener' \in ListenerStates /\ UNCHANGED <<client, server, testVars, c2s, s2c, pathVars>>
  BY DEF vars, testVars, pathVars, linkVars, Inv, TypeOK, ListenerStates
<1> QED
  BY <1>1, ListenerAloneInv

\* Every step of the run keeps the invariant.
LEMMA StepInv == Inv /\ [Next]_vars => Inv'
<1> SUFFICES ASSUME Inv, [Next]_vars PROVE Inv'
  OBVIOUS
<1>1. CASE ClientStep
  BY <1>1, ClientServesInv, ClientConnectInv, ClientHandshakeInv, ClientRequestInv, ClientCloseInv,
     ClientResponseInv, ClientReportInv, EndingsInv, ClientDataInv DEF ClientStep, ClientErrors
<1>2. CASE ServerStep
  BY <1>2, ServerHandshakeInv, ServerOpenInv, ServerReportInv, ServerTestDoneInv, EndingsInv,
     ServerDataInv DEF ServerStep, ServerExits
<1>3. CASE Fault
  BY <1>3, LocalServerInv, ServerRefusesInv, ClientAbortInv, ClientDataInv, ServerDataInv,
     EndingsInv, LoseInv
     DEF Fault, ClientErrors, ServerExits
<1>4. CASE ListenerStep
  BY <1>4, LocalServerInv, ServerAcceptInv DEF ListenerStep
<1>5. CASE Finished \/ UNCHANGED vars
  BY <1>5, StutterInv DEF Finished
<1> QED
  BY <1>1, <1>2, <1>3, <1>4, <1>5 DEF Next

\* The invariant holds throughout a run.
THEOREM Invariance == Spec => []Inv
BY InitInv, StepInv, PTL DEF Spec

\* No count passes what one test can send, the TCP path never holds more than
\* its capacity, and the index of the plan loop stays within the plans or one
\* behind them.
THEOREM TypeCorrect == Spec => []TypeOK
<1>1. Inv => TypeOK
  BY DEF Inv
<1> QED
  BY <1>1, Invariance, PTL

\* build_plans gives, for every mode, direction and list of rates, the order
\* USAGE.md documents, and no step of the run changes it.
THEOREM PlansOrdered == Spec => []PlansInDocumentedOrder
<1>1. Inv => PlansInDocumentedOrder
  BY DEF Inv, Ordered, PlansInDocumentedOrder
<1> QED
  BY <1>1, Invariance, PTL

\* Whatever the data path does and wherever either end fails, the next message
\* an end reads from the control connection is of the type that read expects.
THEOREM FramingHeld == Spec => []FramingInSync
<1>1. ASSUME Inv PROVE FramingInSync
  <2>1. ASSUME client \in {"handshake", "response", "report"}, s2c # <<>>
        PROVE  Head(s2c).type = client
    <3>1. client # "failed"
      BY <2>1
    <3>2. CASE server = "ended"
      BY <1>1, <2>1, <3>2, OfOne DEF Inv, Orphan, Phase, Handshake, Response, Refusal, Report
    <3>3. CASE server # "ended"
      <4>1. Wires(client)
        BY <1>1, <3>1, <3>3, LivePair
      <4>2. \/ client = "handshake" /\ s2c = <<Handshake>>
            \/ client = "response" /\ s2c = <<Response>>
            \/ client = "report" /\ s2c = <<Report(ServerCount)>>
        BY <2>1, <4>1 DEF Wires, Unmet, Greeting, Greeted, Idle, Asked, Answered, Opening,
                          Testing, Reported, Lagging, Closing, Quiet, Phase
      <4> QED
        BY <4>2, OfOne DEF Handshake, Response, Report
    <3> QED
      BY <3>2, <3>3
  <2>2. ASSUME server = "handshake", c2s # <<>>
        PROVE  Head(c2s).type = "handshake"
    <3>1. PICK c \in ClientStates : Wires(c)
      BY <1>1, <2>2, LiveServer
    <3>2. Greeting(c)
      BY <2>2, <3>1 DEF Wires, Unmet, Greeting, Greeted, Idle, Asked, Answered, Opening,
                        Testing, Reported, Lagging, Closing, Running, Fresh
    <3> QED
      BY <3>2, OfOne DEF Greeting, Handshake
  <2>3. ASSUME server = "request", c2s # <<>>
        PROVE  Head(c2s).type = "request"
    <3>1. CASE Head(c2s) = Close
      BY <3>1 DEF Close
    <3>2. CASE Head(c2s) # Close
      <4>1. Head(c2s) = Request(Current)
        BY <1>1, <2>3, <3>2, RequestRead
      <4> QED
        BY <4>1 DEF Request
    <3> QED
      BY <3>1, <3>2
  <2>4. ASSUME server = "client_report", c2s # <<>>
        PROVE  Head(c2s).type = "report"
    <3>1. PICK c \in ClientStates, m \in 0..MaxChunks : Lags(c, m)
      BY <1>1, <2>4, ReportReadBack
    <3>2. Head(c2s) = Report(m)
      BY <3>1, OfOne, HeadOfPair DEF Lags
    <3> QED
      BY <3>2 DEF Report
  <2> QED
    BY <2>1, <2>2, <2>3, <2>4 DEF FramingInSync
<1> QED
  BY <1>1, Invariance, PTL

-----------------------------------------------------------------------------
\* The refinement.  Every step of the two ends is one of BenchRun's, or none.

\* A step that measures, serves and decides nothing.
LEMMA RunStutters ==
  ASSUME UNCHANGED <<plans, outcomes, served>>,
         client' = client \/ {client, client'} \cap {"done", "failed"} = {}
  PROVE  UNCHANGED Run!vars
BY DEF Run!vars

\* An error of the client is a failed run.
LEMMA RunFails ==
  ASSUME UNCHANGED <<plans, outcomes, served>>, client \notin {"done", "failed"},
         client' = "failed"
  PROVE  Run!Fail
BY DEF Run!Fail

\* The close request is written only with every planned test measured.
LEMMA RunSucceeds == Inv /\ ClientClose => Run!Succeed
<1> SUFFICES ASSUME Inv, ClientClose PROVE Run!Succeed
  OBVIOUS
<1>1. client = "request" /\ idx > Len(plans) /\ client' = "done" /\ UNCHANGED <<plans, outcomes, served>>
  BY DEF ClientClose, runVars, testVars
<1>2. /\ plans \in Seq(PlanSet) /\ plans # <<>> /\ idx \in 1..(Len(plans) + 1)
      /\ outcomes \in Seq(Outcomes) /\ idx = Len(outcomes) + 1
  BY <1>1 DEF Inv, TypeOK, PlanSet, ClientSide, Counted
<1>3. Len(plans) \in Nat /\ Len(plans) > 0
  BY <1>2
<1>4. Len(outcomes) \in Nat
  BY <1>2
<1>5. Len(outcomes) = Len(plans)
  BY <1>1, <1>2, <1>3, <1>4
<1> QED
  BY <1>1, <1>3, <1>5 DEF Run!Succeed

\* The client's report measures the next planned test, with both ends in step.
LEMMA RunMeasures == Inv /\ ClientReport => Run!Measure
<1> SUFFICES ASSUME Inv, ClientReport PROVE Run!Measure
  OBVIOUS
<1>1. /\ client = "report" /\ s2c # <<>> /\ client' = "request"
      /\ outcomes' = Append(outcomes, Outcome(Current, ClientCount, Head(s2c).count))
      /\ UNCHANGED <<plans, served>>
  BY DEF ClientReport, Next1
<1>2. served = outcomes /\ req = Current /\ Head(s2c).count = ServerCount
  BY <1>1, ReportRead DEF InStep
<1>3. /\ Outcome(Current, ClientCount, ServerCount) = [plan |-> Current, sent |-> tx, received |-> rx]
      /\ rx <= tx
  BY <1>1, <1>2, OutcomeOf
<1>4. tx \in 0..MaxChunks /\ rx \in 0..MaxChunks
  BY PathTypes
<1>5. Len(outcomes) < Len(plans) /\ Current = plans[Len(outcomes) + 1]
  <2>1. idx <= Len(plans) /\ idx = Len(outcomes) + 1
    BY <1>1 DEF Inv, ClientSide, Counted, Phase
  <2>2. plans \in Seq(PlanSet) /\ outcomes \in Seq(Outcomes)
    BY DEF Inv, TypeOK, PlanSet
  <2>3. Len(plans) \in Nat /\ Len(outcomes) \in Nat
    BY <2>2
  <2> QED
    BY <2>1, <2>3 DEF Current
<1>6. outcomes' = Append(outcomes, [plan |-> plans[Len(outcomes) + 1], sent |-> tx, received |-> rx])
  BY <1>1, <1>2, <1>3, <1>5
<1> QED
  BY <1>1, <1>2, <1>3, <1>4, <1>5, <1>6 DEF Run!Measure

\* The server completes the very test the client measured, with its figures.
LEMMA RunServes == Inv /\ ServerTestDone => Run!Serve
<1> SUFFICES ASSUME Inv, ServerTestDone PROVE Run!Serve
  OBVIOUS
<1>1. /\ server = "client_report" /\ c2s # <<>>
      /\ served' = Append(served, Outcome(req, Head(c2s).count, ServerCount))
      /\ UNCHANGED <<client, plans, outcomes>>
  BY DEF ServerTestDone, Next1
<1>2. PICK m \in 0..MaxChunks :
        Head(c2s).count = m /\ outcomes = Append(served, Outcome(req, m, ServerCount))
  BY <1>1, ReportReadBack
<1>3. PICK o : o = Outcome(req, m, ServerCount)
  OBVIOUS
<1>4. served' = Append(served, o) /\ outcomes = Append(served, o)
  BY <1>1, <1>2, <1>3
<1>5. served \in Seq(Outcomes)
  BY DEF Inv, TypeOK
<1>6. Len(served) \in Nat /\ Len(outcomes) = Len(served) + 1 /\ outcomes[Len(served) + 1] = o
  BY <1>4, <1>5
<1>7. Len(served) < Len(outcomes)
  BY <1>6
<1> QED
  BY <1>1, <1>4, <1>6, <1>7 DEF Run!Serve

\* The run the two ends make, message by message and whatever fails, is the one
\* BenchRun promises: tests measured in the planned order with nothing received
\* that was not sent, the server's figures the client's and at most one test
\* behind, and "ok" only after every planned test.
THEOREM Refines == Spec => ImplementsBenchRun
<1>1. Init => Run!Init
  <2> SUFFICES ASSUME Init PROVE Run!Init
    OBVIOUS
  <2>1. plans \in Seq([kind : {"tcp_up", "tcp_down", "udp_up", "udp_down"}, bw : Nat])
    BY InitInv DEF Inv, TypeOK, Kinds
  <2>2. client \in {"serve", "connect"} /\ outcomes = <<>> /\ served = <<>>
    BY DEF Init
  <2> QED
    BY <2>1, <2>2 DEF Run!Init
<1>2. Inv /\ [Next]_vars => [Run!Next]_(Run!vars)
  <2> SUFFICES ASSUME Inv, [Next]_vars PROVE Run!Next \/ UNCHANGED Run!vars
    OBVIOUS
  <2>1. CASE ClientReport
    BY <2>1, RunMeasures DEF Run!Next
  <2>2. CASE ServerTestDone
    BY <2>2, RunServes DEF Run!Next
  <2>3. CASE ClientClose
    BY <2>3, RunSucceeds DEF Run!Next
  <2>4. CASE ClientErrors
    <3>1. client \notin {"done", "failed"} /\ client' = "failed" /\ UNCHANGED <<plans, outcomes, served>>
      BY <2>4 DEF ClientErrors, ClientRefuses, ClientConnectFails, ClientRejected, ClientEof, ClientWriteFails,
                  ClientDataFails, ClientDataBreaks, ClientFails, sessVars, runVars, testVars
    <3> QED
      BY <3>1, RunFails DEF Run!Next
  <2>5. CASE ClientAbort
    <3>1. client \notin {"done", "failed"} /\ client' = "failed" /\ UNCHANGED <<plans, outcomes, served>>
      BY <2>5 DEF ClientAbort, Over, testVars
    <3> QED
      BY <3>1, RunFails DEF Run!Next
  <2>6. CASE ClientServes
    <3>1. /\ client = "serve" /\ client' \in {"connect", "failed"}
          /\ UNCHANGED <<plans, outcomes, served>>
      BY <2>6 DEF ClientServes, sessVars, runVars, testVars
    <3>2. CASE client' = "failed"
      BY <3>1, <3>2, RunFails DEF Run!Next
    <3>3. CASE client' = "connect"
      BY <3>1, <3>3, RunStutters
    <3> QED
      BY <3>1, <3>2, <3>3
  <2>7. CASE ClientConnect \/ ClientHandshake \/ ClientRequest \/ ClientResponse
    <3>1. /\ UNCHANGED <<plans, outcomes, served>>
          /\ {client, client'} \cap {"done", "failed"} = {}
      BY <2>7 DEF ClientConnect, ClientHandshake, ClientRequest, ClientResponse, runVars, testVars
    <3> QED
      BY <3>1, RunStutters
  <2>8. CASE \/ ClientTcpConnect \/ ClientUdpHello \/ ClientUpTop \/ ClientUpWrite
             \/ ClientUpWriteFails \/ ClientUpBreaks \/ ClientDownRead \/ ClientDownEof
             \/ ClientDownTimeout \/ ClientUdpSend \/ ClientUdpReceive \/ ClientUdpEnd
    <3>1. /\ UNCHANGED <<plans, outcomes, served>>
          /\ client' = client \/ {client, client'} \cap {"done", "failed"} = {}
      BY <2>8 DEF ClientTcpConnect, ClientUdpHello, ClientUpTop, ClientUpWrite, ClientUpWriteFails,
                  ClientUpBreaks, EndUpload, ClientDownRead, Take, ClientDownEof, ClientDownTimeout,
                  DropDownload, ClientUdpSend, Send, ClientUdpReceive, ClientUdpEnd, sessVars, runVars, testVars
    <3> QED
      BY <3>1, RunStutters
  <2>9. CASE \/ LocalServer \/ ServerAccept \/ ServerHandshake \/ ServerOpen
             \/ ServerReport \/ ServerRefuses \/ ServerExits \/ Lose
    <3>1. client' = client /\ UNCHANGED <<plans, outcomes, served>>
      BY <2>9 DEF LocalServer, LocalServerListens, LocalServerBindFails, LocalServerAcceptFails,
                  LocalServerStops, ListenerEnds, ServerAccept, ServerHandshake, ServerOpen,
                  ServerReport, ServerRefuses, ServerExits, ServerClose, ServerBindFails,
                  ServerEof, ServerCrash, ServerReadBreaks, ServerEnds, Lose, sessVars, runVars, testVars
    <3> QED
      BY <3>1, RunStutters
  <2>10. CASE \/ ServerAcceptData \/ ServerUpRead \/ ServerUpEof \/ ServerUpTimeout \/ ServerDownTop
              \/ ServerDownWrite \/ ServerDownWriteFails \/ ServerDownBreaks
              \/ ServerUdpFirst \/ ServerUdpReceive \/ ServerUdpSend \/ ServerUdpEnd
    <3>1. client' = client /\ UNCHANGED <<plans, outcomes, served>>
      BY <2>10 DEF ServerAcceptData, ServerUpRead, Take, ServerUpEof, ServerUpTimeout,
                   ServerPhaseEnds, ServerDownTop, ServerDownWrite, ServerDownWriteFails,
                   ServerDownBreaks, EndDownload, ServerUdpFirst, ServerUdpReceive, ServerUdpSend,
                   Send, ServerUdpEnd, sessVars, runVars, testVars
    <3> QED
      BY <3>1, RunStutters
  <2>11. CASE Finished \/ UNCHANGED vars
    BY <2>11, RunStutters DEF Finished, vars
  <2> QED
    BY <2>1, <2>2, <2>3, <2>4, <2>5, <2>6, <2>7, <2>8, <2>9, <2>10, <2>11
       DEF Next, ClientStep, ListenerStep, ServerStep, Fault, ClientErrors, ServerExits, LocalServer
<1> QED
  BY <1>1, <1>2, Invariance, PTL DEF Spec, ImplementsBenchRun, Run!Spec
=============================================================================
