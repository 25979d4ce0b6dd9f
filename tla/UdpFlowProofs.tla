---------------------------- MODULE UdpFlowProofs ---------------------------
(***************************************************************************)
(* Proofs about the UDP flow, for every duration, rate, packet size and    *)
(* any number of packets, duplicates and strays.                           *)
(*                                                                         *)
(* The first part is about record() alone: what the statistics say of any  *)
(* sequence of arrivals, preserved by one more arrival.  The second part   *)
(* is about the flow: where arrivals come from and when.                   *)
(***************************************************************************)
EXTENDS UdpFlow, SumsAndQueues

-----------------------------------------------------------------------------
\* The statistics and a sequence of arrivals.

StatsType ==
  [packets : Nat, max_seq : Nat, have_max : BOOLEAN, ooo : Nat, dup : Nat,
   jitter : Nat, jitter_den : Nat \ {0}, last_transit : {<<>>} \cup {<<x>> : x \in Int},
   latency_min : Nat, latency_max : Nat, latency_sum : Nat, seen : SUBSET Nat]

Arrival ==
  [seq : Nat, send : Nat, recv : Nat, delay : Nat,
   src : {"client", "server", "other"}]

\* The reference definitions of UdpFlow for any sequence of arrivals.
Firsts(arr) == {i \in DOMAIN arr : \A j \in 1..(i - 1) : arr[j].seq # arr[i].seq}
Late(arr) == {i \in Firsts(arr) : \E j \in 1..(i - 1) : arr[j].seq > arr[i].seq}
Delay(arr, i) == SaturatingSub(arr[i].recv, arr[i].send)
Transit(arr, i) == arr[i].recv - arr[i].send
AfterZero(arr) ==
  {i \in Firsts(arr) : \A j \in Firsts(arr) : j >= i => Delay(arr, j) > 0}

\* What the statistics keep: the numbers and how often they came ...
Counted(st, arr) ==
  /\ st.seen = {arr[i].seq : i \in DOMAIN arr}
  /\ IsFiniteSet(st.seen)
  /\ st.packets = Cardinality(st.seen)
  /\ st.packets = Cardinality(Firsts(arr))
  /\ st.dup = Len(arr) - Cardinality(Firsts(arr))
  /\ st.ooo = Cardinality(Late(arr))

\* ... the highest number, with its flag ...
Highest(st) ==
  /\ st.have_max <=> st.seen # {}
  /\ st.seen # {} => st.max_seq \in st.seen /\ \A n \in st.seen : n <= st.max_seq

\* ... the extremes of the latency, the minimum being that since the last
\* latency of zero ...
Extremes(st, arr) ==
  /\ \A i \in Firsts(arr) : Delay(arr, i) <= st.latency_max
  /\ Firsts(arr) = {} => st.latency_max = 0
  /\ Firsts(arr) # {} => \E i \in Firsts(arr) : Delay(arr, i) = st.latency_max
  /\ AfterZero(arr) = {} => st.latency_min = 0
  /\ AfterZero(arr) # {} =>
       /\ \E i \in AfterZero(arr) : Delay(arr, i) = st.latency_min
       /\ \A i \in AfterZero(arr) : st.latency_min <= Delay(arr, i)

\* ... the sum of the latencies, which any bounds on them bound ...
Summed(st, arr) ==
  /\ st.latency_sum = SumFunctionOnSet([i \in DOMAIN arr |-> Delay(arr, i)], Firsts(arr))
  /\ \A lo, hi \in Nat :
       (\A i \in Firsts(arr) : lo <= Delay(arr, i) /\ Delay(arr, i) <= hi) =>
         lo * st.packets <= st.latency_sum /\ st.latency_sum <= hi * st.packets

\* ... and a jitter within any bounds on the transit times.
Jittered(st, arr) ==
  /\ st.last_transit = <<>> <=> Firsts(arr) = {}
  /\ Firsts(arr) = {} => st.jitter = 0
  /\ Firsts(arr) # {} => \E i \in Firsts(arr) : st.last_transit = <<Transit(arr, i)>>
  /\ \A lo, hi \in Int :
       Firsts(arr) # {}
         /\ (\A i \in Firsts(arr) : lo <= Transit(arr, i) /\ Transit(arr, i) <= hi) =>
         st.jitter <= st.jitter_den * (hi - lo)

Matches(st, arr) ==
  /\ st \in StatsType
  /\ arr \in Seq(Arrival)
  /\ Counted(st, arr)
  /\ Highest(st)
  /\ Extremes(st, arr)
  /\ Summed(st, arr)
  /\ Jittered(st, arr)

-----------------------------------------------------------------------------
\* What record() leaves in each field, for a number not seen before.
Recorded(st, n, send, recv, r) ==
  /\ r \in StatsType
  /\ r.seen = st.seen \cup {n}
  /\ r.packets = st.packets + 1
  /\ r.dup = st.dup
  /\ r.have_max = TRUE
  /\ r.max_seq = IF ~st.have_max \/ n > st.max_seq THEN n ELSE st.max_seq
  /\ r.ooo = IF st.have_max /\ n <= st.max_seq THEN st.ooo + 1 ELSE st.ooo
  /\ LET l == SaturatingSub(recv, send)
     IN  /\ r.latency_min = IF st.latency_min = 0 \/ l < st.latency_min
                            THEN l ELSE st.latency_min
         /\ r.latency_max = IF l > st.latency_max THEN l ELSE st.latency_max
         /\ r.latency_sum = st.latency_sum + l
  /\ r.last_transit = <<recv - send>>
  /\ st.last_transit = <<>> => r.jitter = st.jitter /\ r.jitter_den = st.jitter_den
  /\ st.last_transit # <<>> =>
       /\ r.jitter = 15 * st.jitter
                       + Abs(recv - send - st.last_transit[1]) * st.jitter_den
       /\ r.jitter_den = 16 * st.jitter_den

\* record() of a number not seen before sets the fields so.
LEMMA RecordFresh ==
  ASSUME NEW st \in StatsType, NEW n \in Nat, NEW send \in Nat, NEW recv \in Nat,
         n \notin st.seen,
         NEW r, r = Record(st, n, send, recv)
  PROVE  Recorded(st, n, send, recv, r)
<1> DEFINE l == SaturatingSub(recv, send)
           t == recv - send
           a == [st EXCEPT !.seen = @ \cup {n}, !.packets = @ + 1]
           o == Order(a, n)
           y == Latency(o, l)
<1>0. l \in Nat /\ t \in Int
  BY DEF SaturatingSub
<1>1. r = Jitter(y, t)
  BY DEF Record
<1>2. a \in StatsType /\ a.seen = st.seen \cup {n} /\ a.packets = st.packets + 1
        /\ a.dup = st.dup /\ a.have_max = st.have_max /\ a.max_seq = st.max_seq
        /\ a.ooo = st.ooo /\ a.latency_min = st.latency_min
        /\ a.latency_max = st.latency_max /\ a.latency_sum = st.latency_sum
        /\ a.last_transit = st.last_transit /\ a.jitter = st.jitter
        /\ a.jitter_den = st.jitter_den
  <2> DEFINE S == st.seen \cup {n}
             k == st.packets + 1
  <2>1. S \in SUBSET Nat /\ k \in Nat
    BY DEF StatsType
  <2>2. a = [st EXCEPT !.seen = S, !.packets = k]
    BY DEF StatsType
  <2> HIDE DEF S, k, a
  <2>3. a \in StatsType
    BY <2>1, <2>2 DEF StatsType
  <2>4. a.seen = S /\ a.packets = k
    BY <2>2 DEF StatsType
  <2>5. a.dup = st.dup /\ a.have_max = st.have_max /\ a.max_seq = st.max_seq
          /\ a.ooo = st.ooo /\ a.latency_min = st.latency_min
          /\ a.latency_max = st.latency_max /\ a.latency_sum = st.latency_sum
          /\ a.last_transit = st.last_transit /\ a.jitter = st.jitter
          /\ a.jitter_den = st.jitter_den
    BY <2>2 DEF StatsType
  <2> QED
    BY <2>3, <2>4, <2>5 DEF S, k
<1> HIDE DEF l, t, a
<1>3. o \in StatsType /\ o.seen = a.seen /\ o.packets = a.packets
        /\ o.dup = a.dup /\ o.have_max = TRUE
        /\ o.max_seq = (IF ~a.have_max \/ n > a.max_seq THEN n ELSE a.max_seq)
        /\ o.ooo = (IF a.have_max /\ n <= a.max_seq THEN a.ooo + 1 ELSE a.ooo)
        /\ o.latency_min = a.latency_min
        /\ o.latency_max = a.latency_max /\ o.latency_sum = a.latency_sum
        /\ o.last_transit = a.last_transit /\ o.jitter = a.jitter
        /\ o.jitter_den = a.jitter_den
  <2> DEFINE m == IF ~a.have_max \/ n > a.max_seq THEN n ELSE a.max_seq
             k == IF a.have_max /\ n <= a.max_seq THEN a.ooo + 1 ELSE a.ooo
  <2>1. m \in Nat /\ k \in Nat
    <3>1. a.max_seq \in Nat /\ a.ooo \in Nat
      BY <1>2 DEF StatsType
    <3> QED
      BY <3>1
  <2>2. o = [a EXCEPT !.have_max = TRUE, !.max_seq = m, !.ooo = k]
    BY <1>2 DEF StatsType, Order
  <2> HIDE DEF m, k
  <2>3. o \in StatsType
    BY <1>2, <2>1, <2>2 DEF StatsType
  <2>4. o.max_seq = m /\ o.ooo = k /\ o.have_max = TRUE
    BY <1>2, <2>2 DEF StatsType
  <2>5. o.seen = a.seen /\ o.packets = a.packets /\ o.dup = a.dup
          /\ o.latency_min = a.latency_min
          /\ o.latency_max = a.latency_max /\ o.latency_sum = a.latency_sum
          /\ o.last_transit = a.last_transit /\ o.jitter = a.jitter
          /\ o.jitter_den = a.jitter_den
    BY <1>2, <2>2 DEF StatsType
  <2> QED
    BY <2>3, <2>4, <2>5 DEF m, k
<1> HIDE DEF o
<1>4. y \in StatsType /\ y.seen = o.seen /\ y.packets = o.packets
        /\ y.dup = o.dup /\ y.have_max = o.have_max
        /\ y.max_seq = o.max_seq /\ y.ooo = o.ooo
        /\ y.latency_min = (IF o.latency_min = 0 \/ l < o.latency_min THEN l ELSE o.latency_min)
        /\ y.latency_max = (IF l > o.latency_max THEN l ELSE o.latency_max)
        /\ y.latency_sum = o.latency_sum + l
        /\ y.last_transit = o.last_transit /\ y.jitter = o.jitter
        /\ y.jitter_den = o.jitter_den
  <2> DEFINE lo == IF o.latency_min = 0 \/ l < o.latency_min THEN l ELSE o.latency_min
             hi == IF l > o.latency_max THEN l ELSE o.latency_max
             sm == o.latency_sum + l
  <2>0. o.latency_min \in Nat /\ o.latency_max \in Nat /\ o.latency_sum \in Nat
    BY <1>3 DEF StatsType
  <2>1. lo \in Nat /\ hi \in Nat /\ sm \in Nat
    BY <1>0, <2>0
  <2>2. y = [o EXCEPT !.latency_min = lo, !.latency_max = hi, !.latency_sum = sm]
    BY <1>3 DEF StatsType, Latency
  <2> HIDE DEF lo, hi, sm
  <2>3. y \in StatsType
    BY <1>3, <2>1, <2>2, ZenonT(60) DEF StatsType
  <2>4. y.latency_min = lo /\ y.latency_max = hi /\ y.latency_sum = sm
    BY <1>3, <2>2 DEF StatsType
  <2>5. y.seen = o.seen /\ y.packets = o.packets
          /\ y.dup = o.dup /\ y.have_max = o.have_max
          /\ y.max_seq = o.max_seq /\ y.ooo = o.ooo
          /\ y.last_transit = o.last_transit /\ y.jitter = o.jitter
          /\ y.jitter_den = o.jitter_den
    BY <1>3, <2>2 DEF StatsType
  <2> QED
    BY <2>3, <2>4, <2>5 DEF lo, hi, sm
<1> HIDE DEF y
<1>5. r.seen = y.seen /\ r.packets = y.packets
        /\ r.dup = y.dup /\ r.have_max = y.have_max
        /\ r.max_seq = y.max_seq /\ r.ooo = y.ooo
        /\ r.latency_min = y.latency_min /\ r.latency_max = y.latency_max
        /\ r.latency_sum = y.latency_sum /\ r.last_transit = <<t>>
  <2> DEFINE d == Abs(t - y.last_transit[1])
  <2>1. \/ r = [y EXCEPT !.last_transit = <<t>>]
        \/ r = [y EXCEPT !.jitter = 15 * y.jitter + d * y.jitter_den,
                         !.jitter_den = 16 * y.jitter_den, !.last_transit = <<t>>]
    BY <1>1 DEF Jitter
  <2> DEFINE j == 15 * y.jitter + d * y.jitter_den
             g == 16 * y.jitter_den
  <2>2. r = [y EXCEPT !.jitter = j, !.jitter_den = g, !.last_transit = <<t>>]
          \/ r = [y EXCEPT !.last_transit = <<t>>]
    BY <2>1
  <2>3. y \in StatsType
    BY <1>4
  <2> DEFINE u == <<t>>
  <2>4. r = [y EXCEPT !.jitter = j, !.jitter_den = g, !.last_transit = u]
          \/ r = [y EXCEPT !.last_transit = u]
    BY <2>2
  <2> HIDE DEF d, j, g, u
  <2>5. CASE r = [y EXCEPT !.jitter = j, !.jitter_den = g, !.last_transit = u]
    BY <2>3, <2>5 DEF StatsType, u
  <2>6. CASE r = [y EXCEPT !.last_transit = u]
    BY <2>3, <2>6 DEF StatsType, u
  <2> QED
    BY <2>4, <2>5, <2>6
<1>6. CASE st.last_transit = <<>>
  <2>1. r.jitter = y.jitter /\ r.jitter_den = y.jitter_den
    BY <1>1, <1>2, <1>3, <1>4, <1>6 DEF StatsType, Jitter
  <2>2. r = [y EXCEPT !.last_transit = <<t>>]
    BY <1>1, <1>2, <1>3, <1>4, <1>6 DEF Jitter
  <2>3. r \in StatsType
    BY <1>0, <1>4, <2>2, ZenonT(60) DEF StatsType
  <2> QED
    BY <1>2, <1>3, <1>4, <1>5, <1>6, <2>1, <2>3 DEF l, t, Recorded
<1>7. CASE st.last_transit # <<>>
  <2> DEFINE d == Abs(t - y.last_transit[1])
             j == 15 * y.jitter + d * y.jitter_den
  <2>1. y.last_transit = st.last_transit
    BY <1>2, <1>3, <1>4
  <2>2. y.last_transit[1] \in Int
    BY <1>7, <2>1 DEF StatsType
  <2>3. d \in Nat
    BY <1>0, <2>2 DEF Abs
  <2>4. r = [y EXCEPT !.jitter = j, !.jitter_den = 16 * y.jitter_den, !.last_transit = <<t>>]
    BY <1>1, <1>7, <2>1 DEF Jitter
  <2> HIDE DEF d
  <2>5. y.jitter \in Nat /\ y.jitter_den \in Nat \ {0}
    BY <1>4 DEF StatsType
  <2>6. j \in Nat /\ 16 * y.jitter_den \in Nat \ {0}
    BY <2>3, <2>5
  <2> HIDE DEF j
  <2>7. r \in StatsType
    <3> DEFINE g == 16 * y.jitter_den
               u == <<t>>
    <3>1. g \in Nat \ {0} /\ u \in {<<x>> : x \in Int}
      BY <1>0, <2>6
    <3>2. r = [y EXCEPT !.jitter = j, !.jitter_den = g, !.last_transit = u]
      BY <2>4
    <3> HIDE DEF g, u
    <3> QED
      BY <1>4, <2>6, <3>1, <3>2, ZenonT(60) DEF StatsType
  <2>8. r.jitter = j /\ r.jitter_den = 16 * y.jitter_den
    BY <1>4, <2>4 DEF StatsType
  <2> QED
    BY <1>2, <1>3, <1>4, <1>5, <1>7, <2>1, <2>7, <2>8 DEF l, t, d, j, Recorded
<1> QED
  BY <1>6, <1>7

\* A number seen before only counts as a duplicate.
LEMMA RecordDuplicate ==
  ASSUME NEW st \in StatsType, NEW n \in st.seen, NEW send, NEW recv,
         NEW r, r = Record(st, n, send, recv)
  PROVE  /\ r \in StatsType
         /\ r.dup = st.dup + 1
         /\ r.seen = st.seen /\ r.packets = st.packets /\ r.have_max = st.have_max
         /\ r.max_seq = st.max_seq /\ r.ooo = st.ooo
         /\ r.latency_min = st.latency_min /\ r.latency_max = st.latency_max
         /\ r.latency_sum = st.latency_sum /\ r.last_transit = st.last_transit
         /\ r.jitter = st.jitter /\ r.jitter_den = st.jitter_den
BY SMTT(30) DEF Record, StatsType

-----------------------------------------------------------------------------
\* One arrival more.
LEMMA AppendArrival ==
  ASSUME NEW arr \in Seq(Arrival), NEW a \in Arrival
  PROVE  /\ Append(arr, a) \in Seq(Arrival)
         /\ Len(arr) \in Nat
         /\ DOMAIN arr = 1..Len(arr)
         /\ DOMAIN Append(arr, a) = 1..(Len(arr) + 1)
         /\ Len(Append(arr, a)) = Len(arr) + 1
         /\ \A i \in 1..Len(arr) : Append(arr, a)[i] = arr[i] /\ arr[i] \in Arrival
         /\ Append(arr, a)[Len(arr) + 1] = a
<1>1. Append(arr, a) \in Seq(Arrival) /\ Len(arr) \in Nat /\ DOMAIN arr = 1..Len(arr)
        /\ Len(Append(arr, a)) = Len(arr) + 1
  OBVIOUS
<1>2. DOMAIN Append(arr, a) = 1..(Len(arr) + 1)
  BY <1>1
<1>3. \A i \in 1..Len(arr) : arr[i] \in Arrival
  BY <1>1
<1> QED
  BY <1>1, <1>2, <1>3

\* The first arrivals are finitely many and have latencies and transits.
LEMMA FirstsType ==
  ASSUME NEW arr \in Seq(Arrival)
  PROVE  /\ Firsts(arr) \subseteq DOMAIN arr
         /\ Firsts(arr) \in SUBSET Nat
         /\ IsFiniteSet(Firsts(arr)) /\ Cardinality(Firsts(arr)) \in Nat
         /\ Cardinality(Firsts(arr)) <= Len(arr)
         /\ IsFiniteSet(Late(arr)) /\ Cardinality(Late(arr)) \in Nat
         /\ \A i \in DOMAIN arr : /\ arr[i] \in Arrival
                                  /\ Delay(arr, i) \in Nat
                                  /\ Transit(arr, i) \in Int
<1>1. DOMAIN arr = 1..Len(arr) /\ Len(arr) \in Nat
  OBVIOUS
<1>2. Firsts(arr) \subseteq DOMAIN arr /\ Late(arr) \subseteq Firsts(arr)
  BY DEF Firsts, Late
<1>3. IsFiniteSet(1..Len(arr)) /\ Cardinality(1..Len(arr)) = Len(arr)
  <2>1. Cardinality(1..Len(arr)) = IF 1 > Len(arr) THEN 0 ELSE Len(arr) - 1 + 1
    BY <1>1, FS_Interval, 1 \in Int, Len(arr) \in Int
  <2> QED
    BY <1>1, <2>1, FS_Interval, SMTT(30)
<1>4. IsFiniteSet(Firsts(arr)) /\ Cardinality(Firsts(arr)) <= Len(arr)
  BY <1>1, <1>2, <1>3, FS_Subset
<1>5. IsFiniteSet(Late(arr))
  BY <1>2, <1>4, FS_Subset
<1>6. Cardinality(Firsts(arr)) \in Nat /\ Cardinality(Late(arr)) \in Nat
  BY <1>4, <1>5, FS_CardinalityType
<1>7. ASSUME NEW i \in DOMAIN arr
      PROVE  arr[i] \in Arrival /\ Delay(arr, i) \in Nat /\ Transit(arr, i) \in Int
  <2>1. arr[i] \in Arrival
    BY <1>1
  <2> QED
    BY <2>1 DEF Arrival, Delay, Transit, SaturatingSub
<1> QED
  BY <1>1, <1>2, <1>4, <1>5, <1>6, <1>7

\* Two sequences with the same reference sets.
SameSets(arr, b) ==
  /\ Firsts(b) = Firsts(arr)
  /\ Late(b) = Late(arr)
  /\ AfterZero(b) = AfterZero(arr)
  /\ \A i \in Firsts(arr) : Delay(b, i) = Delay(arr, i) /\ Transit(b, i) = Transit(arr, i)
  /\ {b[i].seq : i \in DOMAIN b} = {arr[i].seq : i \in DOMAIN arr}

\* A duplicate changes none of the reference sets.
LEMMA DuplicateArrival ==
  ASSUME NEW arr \in Seq(Arrival), NEW a \in Arrival,
         NEW k \in DOMAIN arr, arr[k].seq = a.seq,
         NEW b, b = Append(arr, a)
  PROVE  SameSets(arr, b)
<1>1. /\ Len(arr) \in Nat /\ DOMAIN arr = 1..Len(arr) /\ DOMAIN b = 1..(Len(arr) + 1)
      /\ \A i \in 1..Len(arr) : b[i] = arr[i]
      /\ b[Len(arr) + 1] = a
  BY AppendArrival
<1> DEFINE n == Len(arr)
<1> HIDE DEF n
<1>2. /\ n \in Nat /\ DOMAIN arr = 1..n /\ DOMAIN b = 1..(n + 1)
      /\ \A i \in 1..n : b[i] = arr[i]
      /\ b[n + 1] = a
  BY <1>1 DEF n
<1>3. Firsts(b) = Firsts(arr)
  <2>1. n + 1 \notin Firsts(b)
    BY <1>2 DEF Firsts
  <2>2. ASSUME NEW i \in 1..n PROVE i \in Firsts(b) <=> i \in Firsts(arr)
    <3>1. \A j \in 1..(i - 1) : b[j] = arr[j]
      BY <1>2
    <3>2. b[i] = arr[i] /\ i \in DOMAIN b /\ i \in DOMAIN arr
      BY <1>2
    <3> QED
      BY <3>1, <3>2 DEF Firsts
  <2>3. Firsts(b) \subseteq 1..n /\ Firsts(arr) \subseteq 1..n
    BY <1>2, <2>1 DEF Firsts
  <2> QED
    BY <2>2, <2>3
<1>4. \A i \in Firsts(arr) : /\ i \in 1..n /\ b[i] = arr[i]
                            /\ \A j \in 1..(i - 1) : b[j] = arr[j]
  BY <1>2 DEF Firsts
<1>5. \A i \in Firsts(arr) : Delay(b, i) = Delay(arr, i) /\ Transit(b, i) = Transit(arr, i)
  BY <1>4 DEF Delay, Transit
<1>6. Late(b) = Late(arr)
  BY <1>3, <1>4 DEF Late
<1>7. AfterZero(b) = AfterZero(arr)
  BY <1>3, <1>5 DEF AfterZero
<1>8. {b[i].seq : i \in DOMAIN b} = {arr[i].seq : i \in DOMAIN arr}
  <2>1. ASSUME NEW i \in DOMAIN b PROVE \E j \in DOMAIN arr : arr[j].seq = b[i].seq
    <3>1. i \in 1..n \/ i = n + 1
      BY <1>2
    <3> QED
      BY <1>2, <3>1
  <2>2. \A i \in DOMAIN arr : i \in DOMAIN b /\ b[i].seq = arr[i].seq
    BY <1>2
  <2>3. {b[i].seq : i \in DOMAIN b} \subseteq {arr[i].seq : i \in DOMAIN arr}
    BY <2>1
  <2>4. {arr[i].seq : i \in DOMAIN arr} \subseteq {b[i].seq : i \in DOMAIN b}
    BY <2>2
  <2> QED
    BY <2>3, <2>4
<1> QED
  BY <1>3, <1>5, <1>6, <1>7, <1>8 DEF SameSets

\* The sequence b is arr with a new number, at its place n.
OneMore(arr, a, b, n) ==
  /\ n \in Nat /\ n \notin Firsts(arr) /\ n \in Firsts(b) /\ n \notin DOMAIN arr
  /\ DOMAIN b = DOMAIN arr \cup {n}
  /\ Firsts(b) = Firsts(arr) \cup {n}
  /\ \A i \in DOMAIN arr : /\ b[i] = arr[i] /\ i < n
                           /\ Delay(b, i) = Delay(arr, i)
                           /\ Transit(b, i) = Transit(arr, i)
  /\ Delay(b, n) = SaturatingSub(a.recv, a.send)
  /\ Transit(b, n) = a.recv - a.send
  /\ Late(b) = IF \E i \in DOMAIN arr : arr[i].seq > a.seq
               THEN Late(arr) \cup {n} ELSE Late(arr)
  /\ AfterZero(b) = IF Delay(b, n) > 0 THEN AfterZero(arr) \cup {n} ELSE {}
  /\ {b[i].seq : i \in DOMAIN b} = {arr[i].seq : i \in DOMAIN arr} \cup {a.seq}

\* A new number adds one member to the first arrivals.
LEMMA FreshArrival ==
  ASSUME NEW arr \in Seq(Arrival), NEW a \in Arrival,
         \A k \in DOMAIN arr : arr[k].seq # a.seq,
         NEW b, b = Append(arr, a),
         NEW n, n = Len(arr) + 1
  PROVE  OneMore(arr, a, b, n)
<1>1. /\ n \in Nat /\ DOMAIN arr = 1..(n - 1) /\ DOMAIN b = 1..n
      /\ \A i \in 1..(n - 1) : b[i] = arr[i]
      /\ b[n] = a
  BY AppendArrival
<1>2. DOMAIN b = DOMAIN arr \cup {n} /\ n \notin DOMAIN arr
  BY <1>1, Len(arr) \in Nat
<1>3. \A i \in DOMAIN arr : b[i] = arr[i] /\ i < n /\ i \in Nat
  BY <1>1
<1>4. \A i \in DOMAIN arr : Delay(b, i) = Delay(arr, i) /\ Transit(b, i) = Transit(arr, i)
  BY <1>3 DEF Delay, Transit
<1>5. Delay(b, n) = SaturatingSub(a.recv, a.send) /\ Transit(b, n) = a.recv - a.send
  BY <1>1 DEF Delay, Transit
<1>6. Firsts(b) = Firsts(arr) \cup {n}
  <2>1. n \in Firsts(b)
    <3>1. \A j \in 1..(n - 1) : b[j].seq # b[n].seq
      BY <1>1
    <3> QED
      BY <1>2, <3>1 DEF Firsts
  <2>2. ASSUME NEW i \in DOMAIN arr PROVE i \in Firsts(b) <=> i \in Firsts(arr)
    <3>1. \A j \in 1..(i - 1) : b[j] = arr[j]
      BY <1>1
    <3> QED
      BY <1>2, <1>3, <3>1 DEF Firsts
  <2>3. Firsts(b) \subseteq DOMAIN arr \cup {n} /\ Firsts(arr) \subseteq DOMAIN arr
    BY <1>2 DEF Firsts
  <2> QED
    BY <2>1, <2>2, <2>3
<1>7. Firsts(arr) \subseteq DOMAIN arr
  BY DEF Firsts
<1>8. Late(b) = IF \E i \in DOMAIN arr : arr[i].seq > a.seq
               THEN Late(arr) \cup {n} ELSE Late(arr)
  <2>1. ASSUME NEW i \in Firsts(arr) PROVE i \in Late(b) <=> i \in Late(arr)
    <3>1. \A j \in 1..(i - 1) : b[j] = arr[j]
      BY <1>1, <1>7
    <3>2. b[i] = arr[i]
      BY <1>3, <1>7
    <3> QED
      BY <1>6, <3>1, <3>2 DEF Late
  <2>2. n \in Late(b) <=> \E i \in DOMAIN arr : arr[i].seq > a.seq
    BY <1>1, <1>6 DEF Late
  <2>3. Late(b) \subseteq Firsts(arr) \cup {n} /\ Late(arr) \subseteq Firsts(arr)
    BY <1>6 DEF Late
  <2>4. CASE \E i \in DOMAIN arr : arr[i].seq > a.seq
    <3>1. n \in Late(b)
      BY <2>2, <2>4
    <3>2. Late(b) = Late(arr) \cup {n}
      BY <2>1, <2>3, <3>1
    <3> QED
      BY <2>4, <3>2
  <2>5. CASE ~ \E i \in DOMAIN arr : arr[i].seq > a.seq
    <3>1. n \notin Late(b)
      BY <2>2, <2>5
    <3>2. Late(b) = Late(arr)
      BY <2>1, <2>3, <3>1
    <3> QED
      BY <2>5, <3>2
  <2> QED
    BY <2>4, <2>5
<1>9. AfterZero(b) = IF Delay(b, n) > 0 THEN AfterZero(arr) \cup {n} ELSE {}
  <2>1. ASSUME NEW i \in Firsts(arr)
        PROVE  i \in AfterZero(b) <=> i \in AfterZero(arr) /\ Delay(b, n) > 0
    <3>1. n >= i
      BY <1>1, <1>3, <1>7
    <3> QED
      BY <1>4, <1>6, <1>7, <3>1 DEF AfterZero
  <2>2. n \in AfterZero(b) <=> Delay(b, n) > 0
    <3>1. \A j \in Firsts(b) : j >= n <=> j = n
      BY <1>1, <1>3, <1>6, <1>7
    <3> QED
      BY <1>6, <3>1 DEF AfterZero
  <2>3. AfterZero(b) \subseteq Firsts(arr) \cup {n} /\ AfterZero(arr) \subseteq Firsts(arr)
    BY <1>6 DEF AfterZero
  <2> QED
    BY <2>1, <2>2, <2>3
<1>10. {b[i].seq : i \in DOMAIN b} = {arr[i].seq : i \in DOMAIN arr} \cup {a.seq}
  BY <1>1, <1>2, <1>3
<1>11. n \in Nat /\ n \notin Firsts(arr) /\ n \in Firsts(b)
  BY <1>1, <1>2, <1>6, <1>7
<1> QED
  BY <1>2, <1>3, <1>4, <1>5, <1>6, <1>8, <1>9, <1>10, <1>11 DEF OneMore

-----------------------------------------------------------------------------
\* Arithmetic of the two estimates: a sum of p values moves within their bounds.
LEMMA SumWithin ==
  ASSUME NEW lo \in Nat, NEW hi \in Nat, NEW p \in Nat, NEW s \in Nat, NEW l \in Nat,
         lo * p <= s, s <= hi * p, lo <= l, l <= hi
  PROVE  lo * (p + 1) <= s + l /\ s + l <= hi * (p + 1)
<1>1. lo * (p + 1) = lo * p + lo /\ hi * (p + 1) = hi * p + hi
  OBVIOUS
<1>2. lo * p \in Nat /\ hi * p \in Nat
  OBVIOUS
<1> DEFINE x == lo * p
           y == hi * p
<1>3. x \in Nat /\ y \in Nat /\ x <= s /\ s <= y
  BY <1>2
<1>4. lo * (p + 1) = x + lo /\ hi * (p + 1) = y + hi
  BY <1>1
<1> HIDE DEF x, y
<1>5. x + lo <= s + l /\ s + l <= y + hi
  BY <1>3
<1> QED
  BY <1>4, <1>5

\* The jitter after one more difference d stays within the spread w.
LEMMA JitterWithin ==
  ASSUME NEW j \in Nat, NEW g \in Nat, NEW w \in Nat, NEW d \in Nat,
         j <= g * w, d <= w
  PROVE  15 * j + d * g <= (16 * g) * w
<1>1. PICK e \in Nat : w = d + e
  <2>1. w - d \in Nat /\ w = d + (w - d)
    OBVIOUS
  <2> QED
    BY <2>1
<1> DEFINE x == g * d
           y == g * e
<1>2. x \in Nat /\ y \in Nat
  OBVIOUS
<1>3. g * w = x + y
  BY <1>1
<1>4. d * g = x /\ (16 * g) * w = 16 * (g * w)
  OBVIOUS
<1> HIDE DEF x, y
<1>5. j <= x + y
  BY <1>3
<1>6. 15 * j + x <= 16 * (x + y)
  BY <1>2, <1>5
<1> QED
  BY <1>3, <1>4, <1>6

\* The statistics at the start describe the empty sequence.
LEMMA DefaultMatches == Matches(DefaultUdpStats, <<>>)
<1> DEFINE st == DefaultUdpStats
<1>1. st \in StatsType /\ <<>> \in Seq(Arrival)
  BY DEF DefaultUdpStats, StatsType
<1>2. DOMAIN <<>> = {} /\ Len(<<>>) = 0
  OBVIOUS
<1>3. Firsts(<<>>) = {} /\ Late(<<>>) = {} /\ AfterZero(<<>>) = {}
  BY <1>2 DEF Firsts, Late, AfterZero
<1>4. IsFiniteSet({}) /\ Cardinality({}) = 0
  BY FS_EmptySet
<1>5. /\ st.packets = 0 /\ st.dup = 0 /\ st.ooo = 0 /\ st.seen = {} /\ st.have_max = FALSE
      /\ st.latency_min = 0 /\ st.latency_max = 0 /\ st.latency_sum = 0
      /\ st.jitter = 0 /\ st.last_transit = <<>>
  BY DEF DefaultUdpStats
<1> HIDE DEF st
<1>6. Counted(st, <<>>)
  <2> DEFINE none == {<<>>[i].seq : i \in DOMAIN <<>>}
  <2>1. none = {}
    BY <1>2
  <2> HIDE DEF none
  <2>2. st.seen = none /\ IsFiniteSet(st.seen) /\ Cardinality(st.seen) = 0
    BY <1>4, <1>5, <2>1
  <2>3. Cardinality(Firsts(<<>>)) = 0 /\ Cardinality(Late(<<>>)) = 0
    BY <1>3, <1>4
  <2>4. Len(<<>>) - Cardinality(Firsts(<<>>)) = 0
    <3>1. Len(<<>>) - Cardinality(Firsts(<<>>)) = 0 - 0
      BY <1>2, <2>3, Zenon
    <3> QED
      BY <3>1
  <2> QED
    BY <1>5, <2>2, <2>3, <2>4 DEF Counted, none
<1>7. Highest(st) /\ Extremes(st, <<>>) /\ Jittered(st, <<>>)
  <2>1. Highest(st)
    BY <1>5 DEF Highest
  <2>2. Extremes(st, <<>>)
    BY <1>3, <1>5 DEF Extremes
  <2>3. Jittered(st, <<>>)
    BY <1>3, <1>5 DEF Jittered
  <2> QED
    BY <2>1, <2>2, <2>3
<1>8. Summed(st, <<>>)
  <2>1. SumFunctionOnSet([i \in DOMAIN <<>> |-> Delay(<<>>, i)], {}) = 0
    <3> DEFINE f == [i \in DOMAIN <<>> |-> Delay(<<>>, i)]
    <3>1. \A i \in {} : f[i] \in Nat
      OBVIOUS
    <3> HIDE DEF f
    <3>2. SumFunctionOnSet(f, {}) = 0
      BY <1>4, <3>1, SumFacts
    <3> QED
      BY <3>2 DEF f
  <2>2. \A lo, hi \in Nat : lo * 0 <= 0 /\ 0 <= hi * 0
    OBVIOUS
  <2> QED
    BY <1>3, <1>5, <2>1, <2>2 DEF Summed
<1> QED
  BY <1>1, <1>6, <1>7, <1>8 DEF Matches, st

\* A duplicate leaves the statistics matching the arrivals.
LEMMA DuplicateMatches ==
  ASSUME NEW st, NEW arr, Matches(st, arr), NEW a \in Arrival, a.seq \in st.seen,
         NEW r, r = Record(st, a.seq, a.send, a.recv), NEW b, b = Append(arr, a)
  PROVE  Matches(r, b)
<1>1. st \in StatsType /\ arr \in Seq(Arrival) /\ Counted(st, arr)
  BY DEF Matches
<1>2. PICK k \in DOMAIN arr : arr[k].seq = a.seq
  BY <1>1 DEF Counted
<1>3. /\ Firsts(b) = Firsts(arr) /\ Late(b) = Late(arr) /\ AfterZero(b) = AfterZero(arr)
      /\ \A i \in Firsts(arr) : Delay(b, i) = Delay(arr, i) /\ Transit(b, i) = Transit(arr, i)
      /\ {b[i].seq : i \in DOMAIN b} = {arr[i].seq : i \in DOMAIN arr}
  <2>1. SameSets(arr, b)
    BY <1>1, <1>2, DuplicateArrival
  <2> QED
    BY <2>1, Zenon DEF SameSets
<1>4. /\ r \in StatsType /\ r.dup = st.dup + 1
      /\ r.seen = st.seen /\ r.packets = st.packets /\ r.have_max = st.have_max
      /\ r.max_seq = st.max_seq /\ r.ooo = st.ooo
      /\ r.latency_min = st.latency_min /\ r.latency_max = st.latency_max
      /\ r.latency_sum = st.latency_sum /\ r.last_transit = st.last_transit
      /\ r.jitter = st.jitter /\ r.jitter_den = st.jitter_den
  BY <1>1, RecordDuplicate
<1>5. /\ b \in Seq(Arrival) /\ Len(b) = Len(arr) + 1 /\ Len(arr) \in Nat
      /\ DOMAIN b = 1..(Len(arr) + 1) /\ DOMAIN arr = 1..Len(arr)
  BY <1>1, AppendArrival
<1>6. AfterZero(arr) \subseteq Firsts(arr)
  BY DEF AfterZero
<1>7. Counted(r, b)
  <2>1. st.dup = Len(arr) - Cardinality(Firsts(arr)) /\ Cardinality(Firsts(arr)) \in Nat
    BY <1>1, FirstsType DEF Counted
  <2>2. st.dup + 1 = (Len(arr) + 1) - Cardinality(Firsts(arr))
    BY <1>5, <2>1
  <2>3. r.dup = Len(b) - Cardinality(Firsts(b))
    BY <1>3, <1>4, <1>5, <2>2
  <2> QED
    BY <1>1, <1>3, <1>4, <2>3 DEF Counted
<1>8. Highest(r)
  BY <1>4 DEF Matches, Highest
<1>9. Extremes(r, b)
  BY <1>3, <1>4, <1>6 DEF Matches, Extremes
<1>10. Jittered(r, b)
  BY <1>3, <1>4 DEF Matches, Jittered
<1>11. Summed(r, b)
  <2> DEFINE f == [i \in DOMAIN arr |-> Delay(arr, i)]
             e == [i \in DOMAIN b |-> Delay(b, i)]
             F == Firsts(arr)
  <2>1. F \subseteq DOMAIN arr /\ IsFiniteSet(F) /\ DOMAIN arr \subseteq DOMAIN b
    BY <1>1, <1>5, FirstsType
  <2>2. \A i \in F : f[i] \in Nat /\ e[i] = f[i]
    BY <1>1, <1>3, <2>1, FirstsType
  <2> HIDE DEF f, e, F
  <2>3. SumFunctionOnSet(e, F) = SumFunctionOnSet(f, F)
    BY <2>1, <2>2, SumFacts
  <2>4. Summed(st, arr)
    BY DEF Matches
  <2>5. r.latency_sum = SumFunctionOnSet(e, Firsts(b))
    BY <1>3, <1>4, <2>3, <2>4 DEF Summed, f, F
  <2> QED
    BY <1>3, <1>4, <2>4, <2>5 DEF Summed, e
<1> QED
  BY <1>4, <1>5, <1>7, <1>8, <1>9, <1>10, <1>11 DEF Matches

\* The largest number seen, after one more.
LEMMA LargerOfTwo ==
  ASSUME NEW S \in SUBSET Nat, NEW m \in S, \A k \in S : k <= m, NEW x \in Nat,
         NEW y, y = IF x > m THEN x ELSE m
  PROVE  y \in S \cup {x} /\ \A k \in S \cup {x} : k <= y
<1>1. CASE x > m
  <2>1. ASSUME NEW k \in S PROVE k <= x
    <3>1. k \in Nat /\ m \in Nat /\ k <= m
      OBVIOUS
    <3> QED
      BY <1>1, <3>1
  <2>2. y = x
    BY <1>1
  <2> QED
    BY <2>1, <2>2
<1>2. CASE ~(x > m)
  <2>1. x <= m /\ y = m
    BY <1>2
  <2> QED
    BY <2>1
<1> QED
  BY <1>1, <1>2

\* So does a packet not seen before.
LEMMA FreshMatches ==
  ASSUME NEW st, NEW arr, Matches(st, arr), NEW a \in Arrival, a.seq \notin st.seen,
         NEW r, r = Record(st, a.seq, a.send, a.recv), NEW b, b = Append(arr, a)
  PROVE  Matches(r, b)
<1> DEFINE n == Len(arr) + 1
           l == SaturatingSub(a.recv, a.send)
           t == a.recv - a.send
           F == Firsts(arr)
<1>1. st \in StatsType /\ arr \in Seq(Arrival) /\ Counted(st, arr)
  BY DEF Matches
<1>2. \A k \in DOMAIN arr : arr[k].seq # a.seq
  BY <1>1 DEF Counted
<1>3. /\ n \in Nat /\ n \notin F /\ n \in Firsts(b) /\ n \notin DOMAIN arr
      /\ DOMAIN b = DOMAIN arr \cup {n}
      /\ Firsts(b) = F \cup {n}
      /\ \A i \in DOMAIN arr : b[i] = arr[i] /\ i < n
                               /\ Delay(b, i) = Delay(arr, i)
                               /\ Transit(b, i) = Transit(arr, i)
      /\ Delay(b, n) = l
      /\ Transit(b, n) = t
      /\ Late(b) = IF \E i \in DOMAIN arr : arr[i].seq > a.seq
                   THEN Late(arr) \cup {n} ELSE Late(arr)
      /\ AfterZero(b) = IF Delay(b, n) > 0 THEN AfterZero(arr) \cup {n} ELSE {}
      /\ {b[i].seq : i \in DOMAIN b} = {arr[i].seq : i \in DOMAIN arr} \cup {a.seq}
  <2>1. OneMore(arr, a, b, n)
    BY <1>1, <1>2, FreshArrival
  <2> QED
    BY <2>1, Zenon DEF OneMore
<1>4. a.seq \in Nat /\ a.send \in Nat /\ a.recv \in Nat /\ l \in Nat /\ t \in Int
  BY DEF Arrival, SaturatingSub
<1>5. /\ r \in StatsType
      /\ r.seen = st.seen \cup {a.seq}
      /\ r.packets = st.packets + 1
      /\ r.dup = st.dup
      /\ r.have_max = TRUE
      /\ r.max_seq = IF ~st.have_max \/ a.seq > st.max_seq THEN a.seq ELSE st.max_seq
      /\ r.ooo = IF st.have_max /\ a.seq <= st.max_seq THEN st.ooo + 1 ELSE st.ooo
      /\ r.latency_min = IF st.latency_min = 0 \/ l < st.latency_min
                         THEN l ELSE st.latency_min
      /\ r.latency_max = IF l > st.latency_max THEN l ELSE st.latency_max
      /\ r.latency_sum = st.latency_sum + l
      /\ r.last_transit = <<t>>
      /\ st.last_transit = <<>> => r.jitter = st.jitter /\ r.jitter_den = st.jitter_den
      /\ st.last_transit # <<>> =>
           /\ r.jitter = 15 * st.jitter + Abs(t - st.last_transit[1]) * st.jitter_den
           /\ r.jitter_den = 16 * st.jitter_den
  <2>1. Recorded(st, a.seq, a.send, a.recv, r)
    BY <1>1, <1>4, RecordFresh
  <2> QED
    BY <2>1, Zenon DEF Recorded
<1>6. /\ F \subseteq DOMAIN arr /\ IsFiniteSet(F) /\ Cardinality(F) \in Nat
      /\ IsFiniteSet(Late(arr)) /\ Cardinality(Late(arr)) \in Nat
      /\ \A i \in DOMAIN arr : Delay(arr, i) \in Nat /\ Transit(arr, i) \in Int
  BY <1>1, FirstsType
<1>7. b \in Seq(Arrival) /\ Len(b) = Len(arr) + 1 /\ Len(arr) \in Nat
  BY <1>1, AppendArrival
<1>8. /\ st.packets \in Nat /\ st.dup \in Nat /\ st.ooo \in Nat /\ st.max_seq \in Nat
      /\ st.have_max \in BOOLEAN
      /\ st.latency_min \in Nat /\ st.latency_max \in Nat /\ st.latency_sum \in Nat
      /\ st.jitter \in Nat /\ st.jitter_den \in Nat /\ st.seen \in SUBSET Nat
  BY <1>1 DEF StatsType
<1> HIDE DEF n, l, t, F
<1>9. Highest(r)
  <2>1. Highest(st)
    BY DEF Matches
  <2>2. CASE st.seen = {}
    <3>1. ~st.have_max
      BY <2>1, <2>2 DEF Highest
    <3>2. r.max_seq = a.seq /\ r.seen = {a.seq}
      BY <1>5, <2>2, <3>1
    <3> QED
      BY <1>4, <1>5, <3>2 DEF Highest
  <2>3. CASE st.seen # {}
    <3>1. st.have_max /\ st.max_seq \in st.seen /\ \A k \in st.seen : k <= st.max_seq
      BY <2>1, <2>3 DEF Highest
    <3>2. r.max_seq = IF a.seq > st.max_seq THEN a.seq ELSE st.max_seq
      BY <1>5, <3>1
    <3>3. r.seen = st.seen \cup {a.seq} /\ a.seq \in Nat /\ st.seen \in SUBSET Nat
      BY <1>4, <1>5, <1>8, Zenon
    <3>4. r.max_seq \in st.seen \cup {a.seq} /\ \A k \in st.seen \cup {a.seq} : k <= r.max_seq
      BY <3>1, <3>2, <3>3, LargerOfTwo
    <3>5. r.have_max /\ r.seen # {}
      BY <1>5, <3>3
    <3> QED
      BY <3>3, <3>4, <3>5 DEF Highest
  <2> QED
    BY <2>2, <2>3
<1>10. Counted(r, b)
  <2>1. Cardinality(F \cup {n}) = Cardinality(F) + 1
    BY <1>3, <1>6, FS_AddElement
  <2>2. IsFiniteSet(st.seen \cup {a.seq})
          /\ Cardinality(st.seen \cup {a.seq}) = Cardinality(st.seen) + 1
    BY <1>1, FS_AddElement DEF Counted
  <2>3. st.dup = (Len(arr) + 1) - (Cardinality(F) + 1)
    <3>1. st.dup = Len(arr) - Cardinality(F)
      BY <1>1 DEF Counted, F
    <3> QED
      BY <1>6, <1>7, <3>1
  <2>4. r.ooo = Cardinality(Late(b))
    <3>1. (\E i \in DOMAIN arr : arr[i].seq > a.seq) <=> st.have_max /\ a.seq <= st.max_seq
      <4>1. (\E i \in DOMAIN arr : arr[i].seq > a.seq) <=> \E k \in st.seen : k > a.seq
        BY <1>1 DEF Counted
      <4>2. Highest(st)
        BY DEF Matches
      <4> QED
        BY <1>4, <1>8, <4>1, <4>2 DEF Highest
    <3>2. Cardinality(Late(arr) \cup {n}) = Cardinality(Late(arr)) + 1
      <4>1. n \notin Late(arr)
        BY <1>3 DEF Late, F
      <4> QED
        BY <1>6, <4>1, FS_AddElement
    <3>3. st.ooo = Cardinality(Late(arr))
      BY <1>1 DEF Counted
    <3> QED
      BY <1>3, <1>5, <3>1, <3>2, <3>3
  <2>5. r.seen = {b[i].seq : i \in DOMAIN b}
    BY <1>1, <1>3, <1>5 DEF Counted
  <2>6. r.packets = Cardinality(r.seen) /\ IsFiniteSet(r.seen)
    BY <1>1, <1>5, <2>2 DEF Counted
  <2>7. r.packets = Cardinality(Firsts(b))
    BY <1>1, <1>3, <1>5, <2>1 DEF Counted, F
  <2>8. r.dup = Len(b) - Cardinality(Firsts(b))
    BY <1>3, <1>5, <1>7, <2>1, <2>3
  <2> QED
    BY <2>4, <2>5, <2>6, <2>7, <2>8 DEF Counted
<1>11. Extremes(r, b)
  <2>1. Extremes(st, arr)
    BY DEF Matches
  <2>2. \A i \in Firsts(b) : Delay(b, i) <= r.latency_max
    BY <1>3, <1>4, <1>5, <1>6, <1>8, <2>1 DEF Extremes, F
  <2>3. \E i \in Firsts(b) : Delay(b, i) = r.latency_max
    <3>1. CASE l > st.latency_max
      BY <1>3, <1>5, <3>1
    <3>2. CASE ~(l > st.latency_max) /\ F = {}
      <4>1. st.latency_max = 0
        BY <2>1, <3>2 DEF Extremes, F
      <4>2. l = r.latency_max
        BY <1>4, <1>5, <3>2, <4>1
      <4> QED
        BY <1>3, <4>2
    <3>3. CASE ~(l > st.latency_max) /\ F # {}
      <4>1. PICK i \in F : Delay(arr, i) = st.latency_max
        BY <2>1, <3>3 DEF Extremes, F
      <4> QED
        BY <1>3, <1>5, <1>6, <3>3, <4>1
    <3> QED
      BY <3>1, <3>2, <3>3
  <2>4. AfterZero(arr) \subseteq F
    BY DEF AfterZero, F
  <2>5. AfterZero(b) = {} => r.latency_min = 0
    <3>1. AfterZero(b) = {} => ~(l > 0)
      BY <1>3
    <3>2. l = 0 => r.latency_min = 0
      BY <1>5, <1>8
    <3> QED
      BY <1>4, <3>1, <3>2
  <2>6. ASSUME AfterZero(b) # {}
        PROVE  /\ \E i \in AfterZero(b) : Delay(b, i) = r.latency_min
               /\ \A i \in AfterZero(b) : r.latency_min <= Delay(b, i)
    <3>1. l > 0 /\ AfterZero(b) = AfterZero(arr) \cup {n}
      BY <1>3, <2>6
    <3>2. \A i \in AfterZero(arr) : Delay(b, i) = Delay(arr, i) /\ Delay(arr, i) \in Nat
                                    /\ Delay(arr, i) > 0
      BY <1>3, <1>6, <2>4 DEF AfterZero, F
    <3>3. CASE AfterZero(arr) = {}
      <4>1. st.latency_min = 0
        BY <2>1, <3>3 DEF Extremes
      <4>2. r.latency_min = l
        BY <1>5, <4>1
      <4> QED
        BY <1>3, <1>4, <3>1, <3>3, <4>2
    <3>4. CASE AfterZero(arr) # {}
      <4>1. PICK i \in AfterZero(arr) : Delay(arr, i) = st.latency_min
        BY <2>1, <3>4 DEF Extremes
      <4>2. \A k \in AfterZero(arr) : st.latency_min <= Delay(arr, k)
        BY <2>1, <3>4 DEF Extremes
      <4>3. st.latency_min > 0
        BY <3>2, <4>1
      <4>4. r.latency_min = IF l < st.latency_min THEN l ELSE st.latency_min
        BY <1>5, <1>8, <4>3
      <4> QED
        BY <1>3, <1>4, <1>8, <3>1, <3>2, <4>1, <4>2, <4>4, SMTT(30)
    <3> QED
      BY <3>3, <3>4
  <2> QED
    BY <2>2, <2>3, <2>5, <2>6 DEF Extremes
<1>12. Summed(r, b)
  <2> DEFINE f == [i \in DOMAIN arr |-> Delay(arr, i)]
             e == [i \in DOMAIN b |-> Delay(b, i)]
             G == F \cup {n}
  <2>0. Summed(st, arr)
    BY DEF Matches
  <2>1. \A i \in F : f[i] \in Nat /\ e[i] = f[i]
    BY <1>3, <1>6
  <2>2. e[n] = l
    BY <1>3
  <2>3. IsFiniteSet(G) /\ n \in G /\ G \ {n} = F
    <3>1. n \in G /\ G \ {n} = F
      BY <1>3
    <3>2. IsFiniteSet(F \cup {n})
      BY <1>6, FS_AddElement
    <3> QED
      BY <3>1, <3>2
  <2>4. \A i \in G : e[i] \in Nat
    BY <1>4, <2>1, <2>2
  <2> HIDE DEF f, e, G
  <2>5. SumFunctionOnSet(e, F) = SumFunctionOnSet(f, F)
    BY <1>6, <2>1, SumFacts
  <2>6. SumFunctionOnSet(e, G) = SumFunctionOnSet(e, G \ {n}) + e[n]
    BY <2>3, <2>4, SumFacts
  <2>7. st.latency_sum = SumFunctionOnSet(f, F)
    BY <2>0 DEF Summed, f, F
  <2>8. r.latency_sum = SumFunctionOnSet(e, Firsts(b))
    <3>1. r.latency_sum = st.latency_sum + l /\ e[n] = l
      BY <1>5, <2>2
    <3>2. SumFunctionOnSet(e, G) = st.latency_sum + l
      BY <2>3, <2>5, <2>6, <2>7, <3>1
    <3>3. G = Firsts(b)
      BY <1>3 DEF G
    <3> QED
      BY <3>1, <3>2, <3>3
  <2>9. ASSUME NEW lo \in Nat, NEW hi \in Nat,
               \A i \in Firsts(b) : lo <= Delay(b, i) /\ Delay(b, i) <= hi
        PROVE  lo * r.packets <= r.latency_sum /\ r.latency_sum <= hi * r.packets
    <3>1. \A i \in F : lo <= Delay(arr, i) /\ Delay(arr, i) <= hi
      BY <1>3, <1>6, <2>9
    <3>2. lo <= l /\ l <= hi
      BY <1>3, <2>9
    <3>3. lo * st.packets <= st.latency_sum /\ st.latency_sum <= hi * st.packets
      BY <2>0, <3>1 DEF Summed, F
    <3> QED
      <4>1. /\ lo * (st.packets + 1) <= st.latency_sum + l
            /\ st.latency_sum + l <= hi * (st.packets + 1)
        BY <1>4, <1>8, <3>2, <3>3, SumWithin
      <4> QED
        BY <1>5, <4>1
  <2> QED
    BY <2>8, <2>9 DEF Summed, e
<1>13. Jittered(r, b)
  <2>0. Jittered(st, arr)
    BY DEF Matches
  <2>1. r.last_transit # <<>> /\ Firsts(b) # {}
    BY <1>3, <1>5
  <2>2. \E i \in Firsts(b) : r.last_transit = <<Transit(b, i)>>
    BY <1>3, <1>5
  <2>3. ASSUME NEW lo \in Int, NEW hi \in Int,
               \A i \in Firsts(b) : lo <= Transit(b, i) /\ Transit(b, i) <= hi
        PROVE  r.jitter <= r.jitter_den * (hi - lo)
    <3>1. \A i \in F : lo <= Transit(arr, i) /\ Transit(arr, i) <= hi
      BY <1>3, <1>6, <2>3
    <3>2. lo <= t /\ t <= hi
      BY <1>3, <2>3
    <3> DEFINE w == hi - lo
    <3>3. w \in Nat
      BY <1>4, <3>2
    <3>4. CASE F = {}
      <4>1. st.jitter = 0 /\ st.last_transit = <<>>
        BY <2>0, <3>4 DEF Jittered, F
      <4>2. r.jitter = 0 /\ r.jitter_den = st.jitter_den
        BY <1>5, <4>1
      <4> HIDE DEF w
      <4>3. st.jitter_den * w \in Nat
        BY <1>8, <3>3
      <4> QED
        BY <4>2, <4>3 DEF w
    <3>5. CASE F # {}
      <4>1. PICK i \in F : st.last_transit = <<Transit(arr, i)>>
        BY <2>0, <3>5 DEF Jittered, F
      <4> DEFINE d == Abs(t - Transit(arr, i))
      <4>2. d \in Nat /\ d <= w
        BY <1>4, <1>6, <3>1, <3>2, SMTT(30) DEF Abs
      <4>3. st.jitter <= st.jitter_den * w
        BY <2>0, <3>1, <3>5 DEF Jittered, F
      <4>4. st.last_transit # <<>> /\ st.last_transit[1] = Transit(arr, i)
        BY <4>1
      <4>5. r.jitter = 15 * st.jitter + d * st.jitter_den /\ r.jitter_den = 16 * st.jitter_den
        BY <1>5, <4>4
      <4> HIDE DEF d, w
      <4>6. 15 * st.jitter + d * st.jitter_den <= (16 * st.jitter_den) * w
        BY <1>8, <3>3, <4>2, <4>3, JitterWithin
      <4> QED
        BY <4>5, <4>6 DEF w
    <3> QED
      BY <3>4, <3>5
  <2> QED
    BY <2>1, <2>2, <2>3 DEF Jittered
<1> QED
  BY <1>5, <1>7, <1>9, <1>10, <1>11, <1>12, <1>13 DEF Matches

\* record() keeps the statistics those of the arrivals.
LEMMA RecordMatches ==
  ASSUME NEW st, NEW arr, Matches(st, arr), NEW a \in Arrival
  PROVE  Matches(Record(st, a.seq, a.send, a.recv), Append(arr, a))
BY DuplicateMatches, FreshMatches

-----------------------------------------------------------------------------
\* The flow.  The inductive invariant has the type invariant, the statistics
\* matching the arrivals, and five facts of the flow.  Instants lie in the past.
Clocks ==
  /\ s_start <= now
  /\ r_start <= now
  /\ \A m \in net : m.at <= now

\* The two ends start together, and each side's state goes with its loop.
Phases ==
  /\ sender = "start" => now = 0 /\ direction \in {"up", "down"}
  /\ sender \in {"start", "await"} => s_start = NoTime /\ seq = 0 /\ due = 0
  /\ sender \notin {"start", "await"} => s_start # NoTime
  /\ sender = "await" => direction = "down"
  /\ direction = "up" /\ sender # "start" => s_start = 0 /\ seq >= 1
  /\ receiver = "start" <=> sender = "start"
  /\ receiver = "await" => direction = "up"
  /\ direction = "up" /\ receiver \in {"start", "await"} => peer = "none"
  /\ r_start = NoTime => arrivals = <<>>
  /\ direction = "up" /\ peer = "none" => arrivals = <<>>
  /\ direction = "up" /\ receiver = "recv" => r_start # NoTime /\ peer # "none"

\* What a datagram in flight says of its sender.
InFlight ==
  \A m \in net :
    /\ m.to = "client" /\ transport = "direct" =>
         direction = "down" /\ m.src = "server" /\ m.header /\ m.seq < seq
    /\ m.to = "server" => m.src # "server"
    /\ direction = "up" /\ m.src = "client" =>
         m.header /\ m.seq < seq /\ m.ts = m.at /\ (m.seq = 0 => m.ts = 0)

\* What is due, and what was sent, is within the rate.
Paced ==
  /\ sender = "send" => seq < due
  /\ rate > 0 /\ s_start # NoTime => due * PacketBits <= rate * (now - s_start)
  /\ NeverAheadOfRate

\* Every arrival is of the one peer, was sent, and of an upload from the
\* client its transit is its delay short of the delay of the first datagram.
Arrived ==
  /\ \A i \in DOMAIN arrivals :
       /\ direction = "down" /\ transport = "direct" =>
            arrivals[i].src = "server" /\ arrivals[i].seq < seq
       /\ direction = "up" => arrivals[i].src = peer
       /\ direction = "up" /\ peer = "client" =>
            /\ arrivals[i].seq < seq
            /\ arrivals[i].recv - arrivals[i].send = arrivals[i].delay - r_start
  /\ direction = "up" /\ peer = "client" =>
       /\ arrivals # <<>>
       /\ arrivals[1].recv = 0
       /\ arrivals[1].seq = 0 => arrivals[1].send = 0

Inv ==
  /\ TypeOK
  /\ Clocks
  /\ Phases
  /\ InFlight
  /\ Paced
  /\ Arrived
  /\ Matches(stats, arrivals)

\* The constants, as the provers need them.
LEMMA Constants ==
  /\ Directions \subseteq {"up", "down"} /\ Rates \subseteq Nat
  /\ PacketBits \in Nat /\ PacketBits > 0
  /\ Duration \in Nat /\ Grace \in Nat /\ MaxPackets \in Nat /\ MaxDups \in Nat
  /\ MaxStrays \in Nat /\ LatestStart \in Nat /\ MaxTime \in Nat
BY FlowAssumption

\* The invariant holds of the first state.
LEMMA InitInv == Init => Inv
<1> SUFFICES ASSUME Init PROVE Inv
  OBVIOUS
<1>1. TypeOK
  <2>1. stats.seen = {}
    BY DEF Init, DefaultUdpStats
  <2> QED
    BY <2>1, Constants DEF Init, TypeOK, NoTime
<1>2. Clocks /\ InFlight
  BY DEF Init, Clocks, InFlight, NoTime
<1>3. Phases
  BY Constants DEF Init, Phases
<1>4. Paced
  BY DEF Init, Paced, NeverAheadOfRate
<1>5. Arrived
  <2>1. DOMAIN arrivals = {} /\ peer = "none"
    BY DEF Init
  <2> QED
    BY <2>1 DEF Arrived
<1>6. Matches(stats, arrivals)
  BY DefaultMatches DEF Init
<1> QED
  BY <1>1, <1>2, <1>3, <1>4, <1>5, <1>6 DEF Inv

\* Steps that leave the receiver and the datagrams' sender alone keep what is
\* said of the arrivals.
LEMMA SameArrivals ==
  ASSUME Inv, UNCHANGED <<direction, transport, peer, r_start, stats, arrivals>>,
         seq' \in Nat, seq' >= seq
  PROVE  Arrived' /\ Matches(stats, arrivals)'
<1>1. \A i \in DOMAIN arrivals : arrivals[i].seq \in Nat
  <2>1. arrivals \in Seq(Arrival)
    BY DEF Inv, Matches
  <2> QED
    BY <2>1, FirstsType DEF Arrival
<1>2. Arrived'
  BY <1>1 DEF Inv, TypeOK, Arrived
<1>3. Matches(stats, arrivals)'
  BY DEF Inv
<1> QED
  BY <1>2, <1>3

\* A longer time since the start allows as much.
LEMMA RateMonotone ==
  ASSUME NEW x \in Nat, NEW y \in Nat, x <= y, NEW k \in Nat
  PROVE  k * x <= k * y /\ x * k <= y * k
<1>1. PICK d \in Nat : y = x + d
  <2>1. y - x \in Nat /\ y = x + (y - x)
    OBVIOUS
  <2> QED
    BY <2>1
<1>2. k * y = k * x + k * d /\ y * k = x * k + d * k
  BY <1>1
<1>3. k * d \in Nat /\ d * k \in Nat /\ k * x \in Nat /\ x * k \in Nat
  OBVIOUS
<1> QED
  BY <1>2, <1>3

\* The clock moves: what is due stays within the rate.
LEMMA TickInv == Inv /\ Tick => Inv'
<1> SUFFICES ASSUME Inv, Tick PROVE Inv'
  OBVIOUS
<1> USE Constants
<1>1. TypeOK'
  BY DEF Inv, TypeOK, Tick, sendVars, recvVars
<1>2. Clocks'
  <2>1. \A m \in net : m.at \in Nat /\ m.at <= now
    BY DEF Inv, TypeOK, Clocks, Datagrams
  <2> QED
    BY <2>1 DEF Inv, TypeOK, Clocks, Tick, sendVars, recvVars, NoTime
<1>3. Phases'
  BY DEF Inv, Phases, Tick, sendVars, recvVars
<1>4. InFlight'
  BY DEF Inv, InFlight, Tick, sendVars
<1>5. Paced'
  <2>1. sender' = sender /\ seq' = seq /\ due' = due /\ rate' = rate /\ s_start' = s_start
          /\ direction' = direction /\ now' = now + 1
    BY DEF Tick, sendVars
  <2>2. ASSUME s_start # NoTime, rate > 0
        PROVE  rate * (now - s_start) <= rate * (now' - s_start)
                 /\ rate * (now - s_start) \in Nat /\ rate * (now' - s_start) \in Nat
    <3> DEFINE x == now - s_start
               y == now' - s_start
    <3>1. x \in Nat /\ y \in Nat /\ x <= y /\ rate \in Nat
      BY <2>1, <2>2 DEF Inv, TypeOK, Clocks, NoTime
    <3> HIDE DEF x, y
    <3>2. rate * x <= rate * y /\ rate * x \in Nat /\ rate * y \in Nat
      BY <3>1, RateMonotone
    <3> QED
      BY <3>2 DEF x, y
  <2>3. due * PacketBits \in Nat /\ seq * PacketBits \in Nat
    BY DEF Inv, TypeOK
  <2>4. ASSUME s_start # NoTime, rate > 0
        PROVE  /\ due * PacketBits <= rate * (now' - s_start)
               /\ \/ seq = (IF direction = "up" THEN 1 ELSE 0)
                  \/ seq * PacketBits <= rate * (now' - s_start)
    <3> DEFINE u == rate * (now - s_start)
               v == rate * (now' - s_start)
               p == due * PacketBits
               q == seq * PacketBits
    <3>1. p <= u /\ (seq = (IF direction = "up" THEN 1 ELSE 0) \/ q <= u)
      BY <2>4 DEF Inv, Paced, NeverAheadOfRate
    <3>2. u \in Nat /\ v \in Nat /\ u <= v /\ p \in Nat /\ q \in Nat
      BY <2>2, <2>3, <2>4
    <3> HIDE DEF u, v, p, q
    <3>3. p <= v /\ (seq = (IF direction = "up" THEN 1 ELSE 0) \/ q <= v)
      BY <3>1, <3>2
    <3> QED
      BY <3>3 DEF p, q, v
  <2>5. sender = "send" => seq < due
    BY DEF Inv, Paced
  <2> QED
    BY <2>1, <2>4, <2>5 DEF Paced, NeverAheadOfRate
<1>6. Arrived' /\ Matches(stats, arrivals)'
  <2>1. UNCHANGED <<direction, transport, peer, r_start, stats, arrivals>> /\ seq' = seq
    BY DEF Tick, sendVars, recvVars
  <2> QED
    BY <2>1, SameArrivals DEF Inv, TypeOK
<1> QED
  BY <1>1, <1>2, <1>3, <1>4, <1>5, <1>6 DEF Inv

\* A datagram put on the network carries the time it was sent at.
LEMMA NewDatagram ==
  ASSUME NEW to \in {"client", "server"}, NEW src \in {"client", "server", "other"},
         NEW header \in BOOLEAN, NEW n \in Nat, NEW ts \in Nat, now \in Nat,
         NEW d, d = Datagram(to, src, header, n, ts)
  PROVE  /\ d \in Datagrams
         /\ d.to = to /\ d.src = src /\ d.header = header /\ d.seq = n /\ d.ts = ts
         /\ d.at = now
BY DEF Datagram, Datagrams

\* Taking a datagram from the network puts none there.
LEMMA TakeShrinks ==
  ASSUME Inv, NEW m \in net, Take(m)
  PROVE  net' \subseteq net /\ dups' \in 0..MaxDups
BY Constants DEF Inv, TypeOK, Take

\* A stray is a datagram of another source.
LEMMA StrayInv == Inv /\ Stray => Inv'
<1> SUFFICES ASSUME Inv, Stray PROVE Inv'
  OBVIOUS
<1> USE Constants
<1>1. /\ UNCHANGED <<direction, transport, rate, now, dups, peer, sender, s_start, seq, due>>
      /\ UNCHANGED <<receiver, r_start, stop_at, stats, arrivals>>
  BY DEF Stray, sendVars, recvVars
<1>2. PICK header \in BOOLEAN, to \in {"server", "client"} :
        /\ to = "client" => transport = "socks5"
        /\ net' = net \cup {Datagram(to, "other", header, 0, 0)}
  BY DEF Stray
<1> DEFINE d == Datagram(to, "other", header, 0, 0)
<1>3. d \in Datagrams /\ d.to = to /\ d.src = "other" /\ d.at = now
  <2>1. now \in Nat
    BY DEF Inv, TypeOK
  <2> QED
    BY <2>1, NewDatagram
<1> HIDE DEF d
<1>4. net' = net \cup {d}
  BY <1>2 DEF d
<1>5. TypeOK'
  BY <1>1, <1>3, <1>4 DEF Inv, TypeOK, Stray
<1>6. Clocks'
  BY <1>1, <1>3, <1>4 DEF Inv, TypeOK, Clocks
<1>7. Phases'
  BY <1>1 DEF Inv, Phases
<1>8. InFlight'
  BY <1>1, <1>2, <1>3, <1>4 DEF Inv, InFlight
<1>9. Paced'
  BY <1>1 DEF Inv, Paced, NeverAheadOfRate
<1>10. Arrived' /\ Matches(stats, arrivals)'
  BY <1>1, SameArrivals DEF Inv, TypeOK
<1> QED
  BY <1>5, <1>6, <1>7, <1>8, <1>9, <1>10 DEF Inv

\* The client of an upload sends the hello as packet zero.
LEMMA StartUpInv == Inv /\ StartUp => Inv'
<1> SUFFICES ASSUME Inv, StartUp PROVE Inv'
  OBVIOUS
<1> USE Constants
<1> DEFINE d == Datagram("server", "client", TRUE, 0, 0)
<1>1. /\ UNCHANGED <<direction, transport, rate, now, dups, strays, peer, due, r_start, stop_at, stats, arrivals>>
      /\ direction = "up" /\ sender = "start" /\ now = 0 /\ s_start' = 0
      /\ net' = net \cup {d} /\ seq' = 1 /\ sender' = "top" /\ receiver' = "await"
  BY DEF StartUp
<1>2. seq = 0 /\ due = 0 /\ peer = "none"
  BY <1>1 DEF Inv, Phases
<1>3. /\ d \in Datagrams /\ d.to = "server" /\ d.src = "client" /\ d.header = TRUE
      /\ d.seq = 0 /\ d.ts = 0 /\ d.at = 0
  BY <1>1 DEF Datagram, Datagrams
<1> HIDE DEF d
<1>5. TypeOK'
  BY <1>1, <1>3 DEF Inv, TypeOK
<1>6. Clocks'
  BY <1>1, <1>3 DEF Inv, TypeOK, Clocks
<1>7. Phases'
  BY <1>1, <1>2 DEF Inv, Phases, NoTime
<1>8. InFlight'
  <2>1. \A m \in net : m.seq \in Nat
    BY DEF Inv, TypeOK, Datagrams
  <2>2. \A m \in net : (m.to = "client" => transport # "direct") /\ ~(m.src = "client")
    BY <1>1, <1>2, <2>1 DEF Inv, InFlight
  <2> QED
    BY <1>1, <1>3, <2>2 DEF Inv, InFlight
<1>9. Paced'
  <2>1. due * PacketBits = 0 /\ rate * (now - 0) = 0
    BY <1>1, <1>2 DEF Inv, TypeOK
  <2>2. due' * PacketBits <= rate' * (now' - s_start')
    BY <1>1, <2>1
  <2> QED
    BY <1>1, <2>2 DEF Paced, NeverAheadOfRate
<1>10. Arrived' /\ Matches(stats, arrivals)'
  BY <1>1, <1>2, SameArrivals
<1> QED
  BY <1>5, <1>6, <1>7, <1>8, <1>9, <1>10 DEF Inv

\* The client of a download sends a hello and receives.
LEMMA StartDownInv == Inv /\ StartDown => Inv'
<1> SUFFICES ASSUME Inv, StartDown PROVE Inv'
  OBVIOUS
<1> USE Constants
<1> DEFINE d == Datagram("server", "client", TRUE, 0, 0)
<1>1. /\ UNCHANGED <<direction, transport, rate, now, dups, strays, peer, s_start, seq, due, r_start, stats, arrivals>>
      /\ direction = "down" /\ sender = "start" /\ now = 0
      /\ net' = net \cup {d} /\ sender' = "await" /\ receiver' = "recv"
      /\ stop_at' = Duration + Grace
  BY DEF StartDown
<1>2. seq = 0 /\ due = 0 /\ s_start = NoTime
  BY <1>1 DEF Inv, Phases
<1>3. /\ d \in Datagrams /\ d.to = "server" /\ d.src = "client" /\ d.header = TRUE
      /\ d.seq = 0 /\ d.ts = 0 /\ d.at = 0
  BY <1>1 DEF Datagram, Datagrams
<1> HIDE DEF d
<1>5. TypeOK'
  BY <1>1, <1>3 DEF Inv, TypeOK
<1>6. Clocks'
  BY <1>1, <1>3 DEF Inv, TypeOK, Clocks
<1>7. Phases'
  BY <1>1, <1>2 DEF Inv, Phases
<1>8. InFlight'
  BY <1>1, <1>3 DEF Inv, InFlight
<1>9. Paced'
  BY <1>1, <1>2 DEF Paced, NeverAheadOfRate
<1>10. Arrived' /\ Matches(stats, arrivals)'
  BY <1>1, <1>2, SameArrivals
<1> QED
  BY <1>5, <1>6, <1>7, <1>8, <1>9, <1>10 DEF Inv

\* The server of a download starts to send.
LEMMA HelloInv == ASSUME Inv, NEW m \in net, Hello(m) PROVE Inv'
<1> USE Constants
<1>1. /\ UNCHANGED <<direction, transport, rate, now, strays, seq, due, receiver, r_start, stop_at, stats, arrivals>>
      /\ sender = "await" /\ peer' = m.src /\ s_start' = now /\ sender' = "top"
      /\ m.to = "server" /\ Take(m)
  BY DEF Hello, recvVars
<1>2. direction = "down" /\ seq = 0 /\ due = 0
  BY <1>1 DEF Inv, Phases
<1>3. net' \subseteq net /\ dups' \in 0..MaxDups
  BY <1>1, TakeShrinks
<1>4. m.src \in {"client", "other"}
  BY <1>1 DEF Inv, TypeOK, Datagrams, InFlight
<1>5. TypeOK'
  BY <1>1, <1>3, <1>4 DEF Inv, TypeOK
<1>6. Clocks'
  BY <1>1, <1>3 DEF Inv, TypeOK, Clocks
<1>7. Phases'
  <2>1. now # NoTime
    BY DEF Inv, TypeOK, NoTime
  <2> QED
    BY <1>1, <1>2, <2>1 DEF Inv, Phases
<1>8. InFlight'
  BY <1>1, <1>3 DEF Inv, InFlight
<1>9. Paced'
  <2>1. due * PacketBits = 0 /\ rate * (now - now) = 0
    BY <1>2 DEF Inv, TypeOK
  <2> QED
    BY <1>1, <1>2, <2>1 DEF Paced, NeverAheadOfRate
<1>10. Arrived' /\ Matches(stats, arrivals)'
  <2>1. Arrived'
    BY <1>1, <1>2 DEF Inv, Arrived
  <2> QED
    BY <1>1, <2>1 DEF Inv
<1> QED
  BY <1>5, <1>6, <1>7, <1>8, <1>9, <1>10 DEF Inv

\* A step of the sender that sends nothing.
LEMMA SenderMoves ==
  ASSUME Inv, UNCHANGED <<direction, transport, rate, envVars, peer, s_start, seq, recvVars>>,
         sender \in {"top", "burst", "send", "sleep"},
         sender' \in {"top", "burst", "send", "sleep", "done"},
         due' \in Nat,
         sender' = "send" => seq < due',
         rate > 0 => due' * PacketBits <= rate * (now - s_start)
  PROVE  Inv'
<1>1. UNCHANGED <<direction, transport, rate, now, net, dups, strays, peer, s_start, seq,
                  receiver, r_start, stop_at, stats, arrivals>>
  BY DEF envVars, recvVars
<1>2. TypeOK'
  BY <1>1 DEF Inv, TypeOK
<1>3. Clocks'
  BY <1>1 DEF Inv, Clocks
<1>4. Phases'
  BY <1>1 DEF Inv, Phases
<1>5. InFlight'
  BY <1>1 DEF Inv, InFlight
<1>6. Paced'
  BY <1>1 DEF Inv, Paced, NeverAheadOfRate
<1>7. Arrived' /\ Matches(stats, arrivals)'
  BY <1>1, SameArrivals DEF Inv, TypeOK
<1> QED
  BY <1>2, <1>3, <1>4, <1>5, <1>6, <1>7 DEF Inv

\* What is due never exceeds the rate times the time: the division rounds down.
LEMMA DueWithinRate ==
  ASSUME NEW e \in Nat, NEW r \in Nat
  PROVE  /\ TargetPackets(r, PacketBits, e, MaxPackets) \in Nat
         /\ r > 0 => TargetPackets(r, PacketBits, e, MaxPackets) * PacketBits <= r * e
<1> DEFINE x == e * r
           q == x \div PacketBits
<1>0. PacketBits \in Nat /\ PacketBits > 0 /\ MaxPackets \in Nat
  BY Constants
<1>1. x \in Nat /\ x = r * e
  OBVIOUS
<1>2. r > 0 => TargetPackets(r, PacketBits, e, MaxPackets) = q
  BY DEF TargetPackets
<1>3. r = 0 => TargetPackets(r, PacketBits, e, MaxPackets) = MaxPackets
  BY DEF TargetPackets
<1> HIDE DEF x
<1>4. q \in Nat /\ q * PacketBits <= x
  <2>1. q \in Nat /\ x % PacketBits \in Nat /\ x = PacketBits * q + (x % PacketBits)
    BY <1>0, <1>1
  <2>2. PacketBits * q = q * PacketBits /\ q * PacketBits \in Nat
    BY <1>0, <2>1
  <2> HIDE DEF q
  <2> QED
    BY <1>1, <2>1, <2>2
<1> HIDE DEF q
<1> QED
  BY <1>0, <1>1, <1>2, <1>3, <1>4

\* The head of the outer loop reads what is due.
LEMMA TopInv == Inv /\ Top => Inv'
<1> SUFFICES ASSUME Inv, Top PROVE Inv'
  OBVIOUS
<1>1. sender = "top" /\ UNCHANGED <<direction, transport, rate, envVars, peer, s_start, seq, recvVars>>
  BY DEF Top
<1>2. s_start # NoTime
  BY <1>1 DEF Inv, Phases
<1>3. now - s_start \in Nat /\ rate \in Nat
  BY <1>2, Constants DEF Inv, TypeOK, Clocks, NoTime
<1>4. CASE sender' = "done" /\ UNCHANGED due
  <2>1. rate > 0 => due * PacketBits <= rate * (now - s_start)
    BY <1>2 DEF Inv, Paced
  <2> QED
    BY <1>1, <1>4, <2>1, SenderMoves DEF Inv, TypeOK
<1>5. CASE sender' = "burst" /\ due' = DueNow
  <2>1. due' \in Nat /\ (rate > 0 => due' * PacketBits <= rate * (now - s_start))
    BY <1>3, <1>5, DueWithinRate DEF DueNow, Elapsed
  <2> QED
    BY <1>1, <1>5, <2>1, SenderMoves
<1> QED
  BY <1>4, <1>5 DEF Top

\* The steps of the sender that leave what is due.
LEMMA LoopInv == Inv /\ (Burst \/ SendFails \/ Wake) => Inv'
<1> SUFFICES ASSUME Inv, Burst \/ SendFails \/ Wake PROVE Inv'
  OBVIOUS
<1>1. /\ sender \in {"burst", "send", "sleep"}
      /\ UNCHANGED <<direction, transport, rate, envVars, peer, s_start, seq, recvVars>> /\ due' = due
      /\ sender' \in {"top", "burst", "send", "sleep", "done"}
  BY DEF Burst, SendFails, Wake
<1>2. s_start # NoTime
  BY <1>1 DEF Inv, Phases
<1>3. rate > 0 => due * PacketBits <= rate * (now - s_start)
  BY <1>2 DEF Inv, Paced
<1>4. sender' = "send" => seq < due
  BY DEF Inv, TypeOK, Burst, SendFails, Wake
<1>5. due \in Nat
  BY DEF Inv, TypeOK
<1> QED
  BY <1>1, <1>3, <1>4, <1>5, SenderMoves

\* A packet is sent: its number was due.
LEMMA SendPacketInv == Inv /\ SendPacket => Inv'
<1> SUFFICES ASSUME Inv, SendPacket PROVE Inv'
  OBVIOUS
<1> USE Constants
<1> DEFINE up == Datagram("server", "client", TRUE, seq, Elapsed)
           down == Datagram("client", "server", TRUE, seq, Elapsed)
<1>1. /\ sender = "send" /\ seq' = seq + 1 /\ sender' = "burst"
      /\ UNCHANGED <<direction, transport, rate, now, dups, strays, peer, s_start, due>>
      /\ UNCHANGED <<receiver, r_start, stop_at, stats, arrivals>>
  BY DEF SendPacket, recvVars
<1>2. \/ direction = "up" /\ net' = net \cup {up}
      \/ direction = "down" /\ net' = net \cup {down}
      \/ net' = net
  BY DEF SendPacket
<1>3. s_start # NoTime /\ seq \in Nat /\ due \in Nat /\ now \in Nat /\ rate \in Nat
  BY <1>1 DEF Inv, TypeOK, Phases
<1>4. Elapsed \in Nat /\ Elapsed = now - s_start
  BY <1>3 DEF Inv, TypeOK, Clocks, Elapsed, NoTime
<1>5. /\ up \in Datagrams /\ up.to = "server" /\ up.src = "client" /\ up.header = TRUE
      /\ up.seq = seq /\ up.ts = Elapsed /\ up.at = now
  BY <1>3, <1>4 DEF Datagram, Datagrams
<1>6. /\ down \in Datagrams /\ down.to = "client" /\ down.src = "server"
      /\ down.header = TRUE /\ down.seq = seq /\ down.at = now
  BY <1>3, <1>4 DEF Datagram, Datagrams
<1> HIDE DEF up, down
<1>7. TypeOK'
  BY <1>1, <1>2, <1>5, <1>6 DEF Inv, TypeOK
<1>8. Clocks'
  BY <1>1, <1>2, <1>3, <1>5, <1>6 DEF Inv, Clocks
<1>9. Phases'
  BY <1>1, <1>3 DEF Inv, Phases
<1>10. InFlight'
  <2>1. \A m \in net : m.seq \in Nat
    BY DEF Inv, TypeOK, Datagrams
  <2>2. direction = "up" => Elapsed = now /\ seq >= 1
    BY <1>1, <1>3, <1>4 DEF Inv, Phases
  <2> QED
    BY <1>1, <1>2, <1>3, <1>5, <1>6, <2>1, <2>2 DEF Inv, InFlight
<1>11. Paced'
  <2>1. seq + 1 <= due
    BY <1>1, <1>3 DEF Inv, Paced
  <2>2. ASSUME rate > 0
        PROVE  /\ due * PacketBits <= rate * (now - s_start)
               /\ (seq + 1) * PacketBits <= rate * (now - s_start)
    <3> DEFINE u == (seq + 1) * PacketBits
               v == due * PacketBits
               w == rate * Elapsed
    <3>1. u <= v /\ u \in Nat /\ v \in Nat /\ w \in Nat
      BY <1>3, <1>4, <2>1, RateMonotone
    <3>2. v <= w
      BY <1>3, <1>4, <2>2 DEF Inv, Paced
    <3> HIDE DEF u, v, w
    <3>3. u <= w
      BY <3>1, <3>2
    <3> QED
      BY <1>4, <3>2, <3>3 DEF u, v, w
  <2> QED
    BY <1>1, <2>2 DEF Paced, NeverAheadOfRate
<1>12. Arrived' /\ Matches(stats, arrivals)'
  BY <1>1, <1>3, SameArrivals
<1> QED
  BY <1>7, <1>8, <1>9, <1>10, <1>11, <1>12 DEF Inv

\* The arrival that process_packet hands to the statistics.
ArrivalOf(m, start) ==
  [seq |-> m.seq, send |-> m.ts, recv |-> now - start, delay |-> now - m.at, src |-> m.src]

\* process_packet keeps the statistics those of the arrivals, and the arrivals
\* are as they were or have one more.
LEMMA ProcessMatches ==
  ASSUME Inv, NEW m \in net, NEW start \in Nat, start <= now, Process(m, start)
  PROVE  /\ Matches(stats', arrivals')
         /\ ArrivalOf(m, start) \in Arrival
         /\ m.header => arrivals' = Append(arrivals, ArrivalOf(m, start))
         /\ ~m.header => arrivals' = arrivals
<1> DEFINE a == ArrivalOf(m, start)
<1>1. /\ m.seq \in Nat /\ m.ts \in Nat /\ m.at \in Nat /\ m.at <= now /\ now \in Nat
      /\ m.src \in {"client", "server", "other"}
  BY DEF Inv, TypeOK, Clocks, Datagrams
<1>2. a \in Arrival /\ a.seq = m.seq /\ a.send = m.ts /\ a.recv = now - start
  <2>1. now - start \in Nat /\ now - m.at \in Nat
    BY <1>1
  <2> QED
    BY <1>1, <2>1 DEF ArrivalOf, Arrival
<1>3. Matches(stats, arrivals)
  BY DEF Inv
<1>4. CASE m.header
  <2>1. stats' = Record(stats, m.seq, m.ts, now - start) /\ arrivals' = Append(arrivals, a)
    BY <1>4, Zenon DEF Process, ArrivalOf
  <2> HIDE DEF a
  <2>2. Matches(Record(stats, a.seq, a.send, a.recv), Append(arrivals, a))
    BY <1>2, <1>3, RecordMatches
  <2>3. stats' = Record(stats, a.seq, a.send, a.recv)
    BY <1>2, <2>1
  <2> QED
    BY <1>2, <1>4, <2>1, <2>2, <2>3 DEF a
<1>5. CASE ~m.header
  BY <1>2, <1>3, <1>5 DEF Process
<1> QED
  BY <1>4, <1>5

\* The fields of that arrival.
LEMMA ArrivalFields ==
  ASSUME NEW m, NEW start, NEW a, a = ArrivalOf(m, start)
  PROVE  /\ a.seq = m.seq /\ a.send = m.ts /\ a.recv = now - start
         /\ a.delay = now - m.at /\ a.src = m.src
BY DEF ArrivalOf

\* A step of the receiver moves neither the clock nor the sender; what is left
\* to show of it is about the receiver.
LEMMA ReceiverMoves ==
  ASSUME Inv, UNCHANGED <<direction, transport, rate, now, strays, sender, s_start, seq, due>>,
         net' \subseteq net, dups' \in 0..MaxDups,
         peer' \in {"none", "client", "other"},
         receiver' \in {"start", "await", "recv", "done", "failed"},
         r_start' \in Nat \cup {NoTime}, r_start' <= now,
         stop_at' \in Nat \cup {NoTime},
         Phases', Arrived', Matches(stats', arrivals')
  PROVE  Inv'
<1>1. stats'.seen \subseteq Nat
  BY DEF Matches, StatsType
<1>2. TypeOK'
  BY <1>1 DEF Inv, TypeOK
<1>3. Clocks'
  BY DEF Inv, Clocks
<1>4. InFlight'
  BY DEF Inv, InFlight
<1>5. Paced'
  BY DEF Inv, Paced, NeverAheadOfRate
<1>6. Matches(stats, arrivals)'
  OBVIOUS
<1> QED
  BY <1>2, <1>3, <1>4, <1>5, <1>6 DEF Inv

\* The first datagram of an upload starts the server's session.
LEMMA FirstDatagramInv == ASSUME Inv, NEW m \in net, FirstDatagram(m) PROVE Inv'
<1> USE Constants
<1> DEFINE a == ArrivalOf(m, now)
<1>1. /\ UNCHANGED <<direction, transport, rate, now, strays, sender, s_start, seq, due>>
      /\ receiver = "await" /\ peer' = m.src /\ r_start' = now
      /\ stop_at' = now + Duration + Grace /\ receiver' = "recv"
      /\ m.to = "server" /\ Take(m) /\ Process(m, now)
  BY DEF FirstDatagram, sendVars
<1>2. direction = "up" /\ peer = "none" /\ arrivals = <<>>
  BY <1>1 DEF Inv, Phases
<1>3. net' \subseteq net /\ dups' \in 0..MaxDups
  BY <1>1, TakeShrinks
<1>4. /\ m.src \in {"client", "other"} /\ m.seq \in Nat /\ m.ts \in Nat /\ m.at \in Nat
      /\ m.at <= now /\ now \in Nat /\ m.header \in BOOLEAN /\ seq \in Nat
      /\ m.src = "client" => m.header /\ m.seq < seq /\ m.ts = m.at /\ (m.seq = 0 => m.ts = 0)
  BY <1>1, <1>2, SMTT(30) DEF Inv, TypeOK, Datagrams, InFlight, Clocks
<1>5. /\ Matches(stats', arrivals') /\ a \in Arrival
      /\ m.header => arrivals' = Append(arrivals, a)
      /\ ~m.header => arrivals' = arrivals
  BY <1>1, <1>4, ProcessMatches
<1>6. a.seq = m.seq /\ a.send = m.ts /\ a.recv = now - now /\ a.delay = now - m.at /\ a.src = m.src
  BY ArrivalFields
<1> HIDE DEF a
<1>7. /\ m.header => arrivals' = <<a>> /\ DOMAIN arrivals' = {1} /\ arrivals'[1] = a
      /\ ~m.header => arrivals' = <<>> /\ DOMAIN arrivals' = {}
  BY <1>2, <1>5
<1>8. Phases'
  <2>1. now # NoTime /\ m.src # "none" /\ sender # "start"
    BY <1>1, <1>4 DEF NoTime, Inv, Phases
  <2> QED
    BY <1>1, <1>2, <2>1 DEF Inv, Phases
<1>9. Arrived'
  <2>1. CASE ~m.header
    <3>1. m.src # "client" /\ DOMAIN arrivals' = {}
      BY <1>4, <1>7, <2>1
    <3> QED
      BY <1>1, <3>1 DEF Arrived
  <2>2. CASE m.header
    <3>1. a.recv = 0 /\ (m.src = "client" => a.recv - a.send = a.delay - now)
      BY <1>4, <1>6
    <3>2. arrivals' # <<>> /\ DOMAIN arrivals' = {1} /\ arrivals'[1] = a
      BY <1>7, <2>2
    <3> QED
      BY <1>1, <1>2, <1>4, <1>6, <3>1, <3>2 DEF Arrived
  <2> QED
    BY <2>1, <2>2
<1>10. now + Duration + Grace \in Nat
  BY <1>4
<1> QED
  BY <1>1, <1>3, <1>4, <1>5, <1>8, <1>9, <1>10, ReceiverMoves

\* The receive loop takes a datagram.
LEMMA ReceiveInv == ASSUME Inv, NEW m \in net, Receive(m) PROVE Inv'
<1> USE Constants
<1>1. /\ UNCHANGED <<direction, transport, rate, now, strays, peer, sender, s_start, seq, due, receiver, stop_at>>
      /\ receiver = "recv" /\ m.to = (IF direction = "up" THEN "server" ELSE "client") /\ Take(m)
  BY DEF Receive, sendVars
<1>2. net' \subseteq net /\ dups' \in 0..MaxDups
  BY <1>1, TakeShrinks
<1>3. /\ peer \in {"none", "client", "other"} /\ r_start \in Nat \cup {NoTime}
      /\ stop_at \in Nat \cup {NoTime} /\ r_start <= now /\ now \in Nat /\ seq \in Nat
      /\ direction \in {"up", "down"}
  BY DEF Inv, TypeOK, Clocks
<1>4. CASE direction = "up" /\ m.src # peer
  <2>1. UNCHANGED <<r_start, stats, arrivals>>
    BY <1>4 DEF Receive
  <2>2. Phases'
    BY <1>1, <2>1 DEF Inv, Phases
  <2>3. Arrived' /\ Matches(stats', arrivals')
    BY <1>1, <2>1 DEF Inv, Arrived
  <2> QED
    BY <1>1, <1>2, <1>3, <2>1, <2>2, <2>3, ReceiverMoves DEF Inv, TypeOK
<1>5. CASE ~(direction = "up" /\ m.src # peer)
  <2> DEFINE start == IF r_start = NoTime THEN now ELSE r_start
             a == ArrivalOf(m, start)
  <2>1. r_start' = start /\ Process(m, start)
    BY <1>5 DEF Receive
  <2>2. start \in Nat /\ start <= now /\ (r_start # NoTime => start = r_start)
    BY <1>3
  <2> HIDE DEF start
  <2>3. /\ Matches(stats', arrivals') /\ a \in Arrival
        /\ m.header => arrivals' = Append(arrivals, a)
        /\ ~m.header => arrivals' = arrivals
    BY <2>1, <2>2, ProcessMatches
  <2>4. a.seq = m.seq /\ a.send = m.ts /\ a.recv = now - start /\ a.delay = now - m.at /\ a.src = m.src
    BY ArrivalFields
  <2> HIDE DEF a
  <2>5. m.seq \in Nat /\ m.ts \in Nat /\ m.at \in Nat
    BY DEF Inv, TypeOK, Datagrams
  <2>6. Phases'
    <3>1. start # NoTime
      BY <2>2 DEF NoTime
    <3> QED
      BY <1>1, <2>1, <3>1 DEF Inv, Phases
  <2>7. arrivals \in Seq(Arrival)
    BY DEF Inv, Matches
  <2>8. CASE ~m.header
    <3>1. Arrived'
      <4>1. direction = "up" => start = r_start
        BY <1>1, <2>2 DEF Inv, Phases
      <4> QED
        BY <1>1, <2>1, <2>3, <2>8, <4>1 DEF Inv, Arrived
    <3> QED
      BY <1>1, <1>2, <1>3, <2>1, <2>2, <2>3, <2>6, <3>1, ReceiverMoves
  <2>9. CASE m.header
    <3>1. /\ arrivals' = Append(arrivals, a) /\ DOMAIN arrivals = 1..Len(arrivals)
          /\ DOMAIN arrivals' = 1..(Len(arrivals) + 1) /\ Len(arrivals) \in Nat
          /\ Len(arrivals') = Len(arrivals) + 1
          /\ \A i \in 1..Len(arrivals) : arrivals'[i] = arrivals[i]
          /\ arrivals'[Len(arrivals) + 1] = a
      BY <2>3, <2>7, <2>9, AppendArrival
    <3>2. \A i \in DOMAIN arrivals' : \/ i \in DOMAIN arrivals /\ arrivals'[i] = arrivals[i]
                                      \/ arrivals'[i] = a
      BY <3>1
    <3>3. CASE direction = "down"
      <4>1. transport = "direct" => a.src = "server" /\ a.seq < seq
        BY <1>1, <2>4, <3>3 DEF Inv, InFlight
      <4> QED
        <5>1. Arrived'
          BY <1>1, <3>2, <3>3, <4>1 DEF Inv, Arrived
        <5> QED
          BY <1>1, <1>2, <1>3, <2>1, <2>2, <2>3, <2>6, <5>1, ReceiverMoves
    <3>4. CASE direction = "up"
      <4>1. a.src = peer /\ start = r_start
        BY <1>1, <1>5, <2>2, <2>4, <3>4 DEF Inv, Phases
      <4>2. peer = "client" => a.seq < seq /\ a.recv - a.send = a.delay - start
        <5>1. peer = "client" => m.seq < seq /\ m.ts = m.at
          BY <2>4, <3>4, <4>1 DEF Inv, InFlight
        <5> QED
          BY <1>3, <2>2, <2>4, <2>5, <5>1
      <4>3. arrivals # <<>> => 1 \in DOMAIN arrivals
        BY <2>7
      <4>4. arrivals' # <<>>
        BY <3>1
      <4>5. ASSUME peer = "client"
            PROVE  arrivals'[1].recv = 0 /\ (arrivals'[1].seq = 0 => arrivals'[1].send = 0)
        <5>1. /\ arrivals # <<>> /\ arrivals[1].recv = 0
              /\ arrivals[1].seq = 0 => arrivals[1].send = 0
          BY <3>4, <4>5 DEF Inv, Arrived
        <5>2. arrivals'[1] = arrivals[1]
          BY <3>1, <4>3, <5>1
        <5> QED
          BY <5>1, <5>2
      <4>6. Arrived'
        BY <1>1, <2>1, <3>2, <3>4, <4>1, <4>2, <4>4, <4>5 DEF Inv, Arrived
      <4> QED
        BY <1>1, <1>2, <1>3, <2>1, <2>2, <2>3, <2>6, <4>6, ReceiverMoves
    <3> QED
      BY <1>3, <3>3, <3>4
  <2> QED
    BY <2>8, <2>9
<1> QED
  BY <1>4, <1>5

\* The receiver ends.
LEMMA EndingInv == Inv /\ (ReceiveFails \/ ReceiveStops) => Inv'
<1> SUFFICES ASSUME Inv, ReceiveFails \/ ReceiveStops PROVE Inv'
  OBVIOUS
<1>1. /\ UNCHANGED <<direction, transport, rate, now, net, dups, strays, peer, sender, s_start, seq, due>>
      /\ UNCHANGED <<r_start, stop_at, stats, arrivals>>
      /\ receiver' \in {"done", "failed"} /\ receiver \in {"await", "recv"}
  BY DEF ReceiveFails, ReceiveStops, envVars, sendVars
<1>2. Phases'
  BY <1>1 DEF Inv, Phases
<1>3. Arrived' /\ Matches(stats', arrivals')
  BY <1>1 DEF Inv, Arrived
<1> QED
  BY <1>1, <1>2, <1>3, ReceiverMoves DEF Inv, TypeOK, Clocks

\* The invariant is preserved by every step.
LEMMA StepInv == Inv /\ [Next]_vars => Inv'
<1> SUFFICES ASSUME Inv, [Next]_vars PROVE Inv'
  OBVIOUS
<1>1. CASE UNCHANGED vars
  <2>1. TypeOK' /\ Clocks' /\ Phases'
    BY <1>1 DEF vars, Inv, TypeOK, Clocks, Phases
  <2>2. InFlight' /\ Paced' /\ Arrived'
    BY <1>1 DEF vars, Inv, InFlight, Paced, NeverAheadOfRate, Arrived
  <2>3. Matches(stats, arrivals)'
    BY <1>1 DEF vars, Inv
  <2> QED
    BY <2>1, <2>2, <2>3 DEF Inv
<1>2. CASE \E m \in net : DataArrives(m)
  BY <1>2, HelloInv, FirstDatagramInv, ReceiveInv DEF DataArrives
<1>3. CASE Next /\ ~(\E m \in net : DataArrives(m))
  BY <1>1, <1>3, TickInv, StrayInv, StartUpInv, StartDownInv, TopInv, LoopInv, SendPacketInv,
     EndingInv DEF Next, SendLoop, Ended
<1> QED
  BY <1>1, <1>2, <1>3

\* Every reachable state of a flow satisfies the invariant.
THEOREM Invariance == Spec => []Inv
<1>1. Init => Inv
  BY InitInv
<1>2. Inv /\ [Next]_vars => Inv'
  BY StepInv
<1> QED
  BY <1>1, <1>2, PTL DEF Spec

-----------------------------------------------------------------------------
\* The reference sets of UdpFlow are those of the first part, at arrivals.
LEMMA ReferenceSets ==
  /\ FirstArrivals = Firsts(arrivals)
  /\ Overtaken = Late(arrivals)
  /\ SinceZero = AfterZero(arrivals)
  /\ \A i : LatencyOf(i) = Delay(arrivals, i) /\ TransitOf(i) = Transit(arrivals, i)
<1>1. FirstArrivals = Firsts(arrivals)
  BY DEF FirstArrivals, Firsts
<1>2. \A i : LatencyOf(i) = Delay(arrivals, i) /\ TransitOf(i) = Transit(arrivals, i)
  BY DEF LatencyOf, TransitOf, Delay, Transit
<1>3. Overtaken = Late(arrivals)
  BY <1>1 DEF Overtaken, Late
<1>4. SinceZero = AfterZero(arrivals)
  BY <1>1, <1>2 DEF SinceZero, AfterZero
<1> QED
  BY <1>1, <1>2, <1>3, <1>4

\* Every number that arrived has a first arrival.
LEMMA FirstNumbers ==
  ASSUME NEW arr \in Seq(Arrival)
  PROVE  {arr[i].seq : i \in Firsts(arr)} = {arr[i].seq : i \in DOMAIN arr}
<1>1. ASSUME NEW i \in DOMAIN arr
      PROVE  \E k \in Firsts(arr) : arr[k].seq = arr[i].seq
  <2> DEFINE P == {k \in DOMAIN arr : arr[k].seq = arr[i].seq}
  <2>1. P \in SUBSET Nat /\ P # {} /\ DOMAIN arr = 1..Len(arr) /\ Len(arr) \in Nat
    OBVIOUS
  <2>2. PICK k \in P : \A j \in P : k <= j
    <3> HIDE DEF P
    <3> QED
      BY <2>1, NatMin
  <2>3. k \in DOMAIN arr /\ k \in 1..Len(arr)
    BY <2>1, <2>2
  <2>4. \A j \in 1..(k - 1) : arr[j].seq # arr[k].seq
    <3>1. ASSUME NEW j \in 1..(k - 1) PROVE arr[j].seq # arr[k].seq
      <4>1. j \in DOMAIN arr /\ ~(k <= j)
        BY <2>1, <2>3
      <4> QED
        BY <2>2, <4>1
    <3> QED
      BY <3>1
  <2> QED
    BY <2>2, <2>3, <2>4 DEF Firsts
<1>2. Firsts(arr) \subseteq DOMAIN arr
  BY DEF Firsts
<1> QED
  BY <1>1, <1>2

\* The sum over a set of positions is that of the function of the latencies.
LEMMA SumOfLatencies ==
  ASSUME arrivals \in Seq(Arrival)
  PROVE  MapThenSumSet(LatencyOf, FirstArrivals)
           = SumFunctionOnSet([i \in DOMAIN arrivals |-> Delay(arrivals, i)], Firsts(arrivals))
<1> DEFINE f == [i \in FirstArrivals |-> LatencyOf(i)]
           e == [i \in DOMAIN arrivals |-> Delay(arrivals, i)]
           F == Firsts(arrivals)
<1>1. MapThenSumSet(LatencyOf, FirstArrivals) = SumFunctionOnSet(f, FirstArrivals)
  BY Zenon DEF SumFunctionOnSet, FoldFunctionOnSet, MapThenFoldSet, MapThenSumSet
<1>2. /\ IsFiniteSet(F) /\ F \subseteq DOMAIN arrivals
      /\ \A i \in DOMAIN arrivals : Delay(arrivals, i) \in Nat
  BY FirstsType
<1>3. FirstArrivals = F
  BY ReferenceSets
<1>4. \A i \in F : e[i] \in Nat /\ f[i] = e[i]
  BY <1>2, <1>3, ReferenceSets
<1> HIDE DEF f, e, F
<1>5. SumFunctionOnSet(f, F) = SumFunctionOnSet(e, F)
  BY <1>2, <1>4, SumFacts
<1> QED
  BY <1>1, <1>3, <1>5 DEF e, F

\* The statistics are those of the arrivals in every state of a flow, for any
\* number of packets, duplicates and any order (UdpStats::record).
THEOREM StatsMatch == Spec => []StatsMatchArrivals
<1>1. Inv => StatsMatchArrivals
  <2> SUFFICES ASSUME Inv PROVE StatsMatchArrivals
    OBVIOUS
  <2> DEFINE F == Firsts(arrivals)
  <2>1. /\ arrivals \in Seq(Arrival) /\ stats \in StatsType
        /\ Counted(stats, arrivals) /\ Highest(stats) /\ Extremes(stats, arrivals)
        /\ Summed(stats, arrivals)
    BY DEF Inv, Matches
  <2>2. /\ IsFiniteSet(F) /\ F \subseteq DOMAIN arrivals
        /\ \A i \in DOMAIN arrivals : arrivals[i] \in Arrival /\ Delay(arrivals, i) \in Nat
    BY <2>1, FirstsType
  <2>3. stats.packets = Cardinality(FirstArrivals)
          /\ stats.dup = Len(arrivals) - Cardinality(FirstArrivals)
          /\ stats.ooo = Cardinality(Overtaken)
    BY <2>1, ReferenceSets DEF Counted
  <2>4. stats.latency_sum = MapThenSumSet(LatencyOf, FirstArrivals)
    BY <2>1, SumOfLatencies DEF Summed
  <2>5. ASSUME F # {}
        PROVE  stats.latency_max = Max({LatencyOf(i) : i \in FirstArrivals})
    <3> DEFINE L == {LatencyOf(i) : i \in FirstArrivals}
    <3>1. L \in SUBSET Int
      BY <2>2, ReferenceSets
    <3>2. stats.latency_max \in L /\ \A x \in L : x <= stats.latency_max
      BY <2>1, <2>2, <2>5, ReferenceSets DEF Extremes
    <3> HIDE DEF L
    <3>3. Max(L) = stats.latency_max
      BY <3>1, <3>2, MaxMinIs
    <3> QED
      BY <3>3 DEF L
  <2>6. ASSUME F # {}
        PROVE  stats.max_seq = Max({arrivals[i].seq : i \in FirstArrivals})
    <3> DEFINE L == {arrivals[i].seq : i \in FirstArrivals}
    <3>1. L \in SUBSET Int
      BY <2>2, ReferenceSets DEF Arrival
    <3>2. L = stats.seen
      BY <2>1, FirstNumbers, ReferenceSets DEF Counted
    <3>3. stats.max_seq \in L /\ \A x \in L : x <= stats.max_seq
      <4>1. stats.seen # {}
        BY <2>1, <2>2, <2>5, <2>6 DEF Counted
      <4> QED
        BY <2>1, <3>2, <4>1 DEF Highest
    <3> HIDE DEF L
    <3>4. Max(L) = stats.max_seq
      BY <3>1, <3>3, MaxMinIs
    <3> QED
      BY <3>4 DEF L
  <2>7. SinceZero = {} => stats.latency_min = 0
    BY <2>1, ReferenceSets DEF Extremes
  <2>8. ASSUME SinceZero # {}
        PROVE  stats.latency_min = Min({LatencyOf(i) : i \in SinceZero})
    <3> DEFINE L == {LatencyOf(i) : i \in SinceZero}
    <3>1. L \in SUBSET Int
      BY <2>2, ReferenceSets DEF AfterZero
    <3>2. stats.latency_min \in L /\ \A x \in L : stats.latency_min <= x
      BY <2>1, <2>8, ReferenceSets DEF Extremes
    <3> HIDE DEF L
    <3>3. Min(L) = stats.latency_min
      BY <3>1, <3>2, MaxMinIs
    <3> QED
      BY <3>3 DEF L
  <2>9. FirstArrivals = F
    BY ReferenceSets
  <2> HIDE DEF F
  <2> QED
    BY <2>3, <2>4, <2>5, <2>6, <2>7, <2>8, <2>9 DEF StatsMatchArrivals
<1> QED
  BY <1>1, Invariance, PTL

\* Every variable of a flow keeps its type.
THEOREM TypeCorrect == Spec => []TypeOK
BY Invariance, PTL DEF Inv

\* A limited sender is never ahead of its rate, on either side, however late
\* its task is polled (Pacer::target_packets_now).
THEOREM PacedWithinRate == Spec => []NeverAheadOfRate
<1>1. Inv => NeverAheadOfRate
  BY DEF Inv, Paced
<1> QED
  BY <1>1, Invariance, PTL

\* The jitter of record() stays within the spread of the transit times,
\* whatever is lost, repeated or reordered.
THEOREM JitterBounded == Spec => []JitterWithinSpread
<1>1. Inv => JitterWithinSpread
  <2> SUFFICES ASSUME Inv, FirstArrivals # {}
               PROVE  LET transits == {TransitOf(i) : i \in FirstArrivals}
                      IN  stats.jitter <= stats.jitter_den * (Max(transits) - Min(transits))
    BY DEF JitterWithinSpread
  <2> DEFINE T == {TransitOf(i) : i \in FirstArrivals}
             F == Firsts(arrivals)
  <2>1. arrivals \in Seq(Arrival) /\ Jittered(stats, arrivals)
    BY DEF Inv, Matches
  <2>2. /\ IsFiniteSet(F) /\ F \subseteq DOMAIN arrivals
        /\ \A i \in DOMAIN arrivals : Transit(arrivals, i) \in Int
    BY <2>1, FirstsType
  <2>3. F = FirstArrivals /\ T = {Transit(arrivals, i) : i \in F}
    BY ReferenceSets
  <2>4. IsFiniteSet(T) /\ T \in SUBSET Int /\ T # {}
    <3> DEFINE f == [i \in F |-> Transit(arrivals, i)]
    <3>1. IsFiniteSet({f[i] : i \in F})
      BY <2>2, ImageFinite
    <3>2. {f[i] : i \in F} = {Transit(arrivals, i) : i \in F}
      OBVIOUS
    <3> QED
      BY <2>2, <2>3, <3>1, <3>2
  <2>5. \A i \in F : Transit(arrivals, i) \in T
    BY <2>3
  <2> HIDE DEF T, F
  <2>6. /\ Max(T) \in Int /\ Min(T) \in Int
        /\ \A i \in F : Min(T) <= Transit(arrivals, i) /\ Transit(arrivals, i) <= Max(T)
    BY <2>4, <2>5, MaxMin
  <2>7. stats.jitter <= stats.jitter_den * (Max(T) - Min(T))
    BY <2>1, <2>3, <2>6 DEF Jittered, F
  <2> QED
    BY <2>7 DEF T
<1> QED
  BY <1>1, Invariance, PTL

\* The arrivals of a flow between client and server are numbers that were sent.
LEMMA ArrivalsWereSent ==
  ASSUME Inv, OwnDatagrams
  PROVE  /\ stats.seen \subseteq 0..(seq - 1)
         /\ IsFiniteSet(stats.seen) /\ stats.packets = Cardinality(stats.seen)
         /\ stats.packets \in Nat /\ seq \in Nat /\ stats.packets <= seq
         /\ Cardinality((0..(seq - 1)) \ stats.seen) = seq - stats.packets
<1>1. /\ arrivals \in Seq(Arrival) /\ seq \in Nat /\ direction \in {"up", "down"}
      /\ Counted(stats, arrivals) /\ peer \in {"none", "client", "other"}
  BY Constants DEF Inv, TypeOK, Matches
<1>2. ASSUME NEW i \in DOMAIN arrivals PROVE arrivals[i].seq \in 0..(seq - 1)
  <2>1. arrivals[i].seq \in Nat
    BY <1>1, FirstsType DEF Arrival
  <2>2. direction = "up" => peer = "client"
    BY <1>1 DEF Inv, Phases, OwnDatagrams
  <2>3. arrivals[i].seq < seq
    BY <1>1, <2>2 DEF Inv, Arrived, OwnDatagrams
  <2> QED
    BY <1>1, <2>1, <2>3
<1>3. stats.seen \subseteq 0..(seq - 1) /\ IsFiniteSet(stats.seen)
        /\ stats.packets = Cardinality(stats.seen)
  BY <1>1, <1>2 DEF Counted
<1>4. IsFiniteSet(0..(seq - 1)) /\ Cardinality(0..(seq - 1)) = seq
  <2>1. 0 \in Int /\ seq - 1 \in Int
    BY <1>1
  <2>2. IsFiniteSet(0..(seq - 1))
          /\ Cardinality(0..(seq - 1)) = IF 0 > seq - 1 THEN 0 ELSE (seq - 1) - 0 + 1
    BY <2>1, FS_Interval
  <2> QED
    BY <1>1, <2>2
<1>5. stats.packets \in Nat /\ stats.packets <= seq
  BY <1>3, <1>4, FS_Subset, FS_CardinalityType
<1>6. (0..(seq - 1)) \cap stats.seen = stats.seen
  BY <1>3
<1>7. Cardinality((0..(seq - 1)) \ stats.seen) = seq - stats.packets
  <2> DEFINE S == 0..(seq - 1)
             A == stats.seen
  <2>1. IsFiniteSet(S) /\ Cardinality(S) = seq /\ S \cap A = A /\ stats.packets = Cardinality(A)
    BY <1>3, <1>4, <1>6
  <2> HIDE DEF S, A
  <2>2. Cardinality(S \ A) = Cardinality(S) - Cardinality(S \cap A)
    BY <2>1, FS_Difference
  <2>3. Cardinality(S \ A) = seq - stats.packets
    BY <2>1, <2>2
  <2> QED
    BY <2>3 DEF S, A
<1> QED
  BY <1>1, <1>3, <1>5, <1>7

\* In an upload, and in a download over a direct transport, the receiver never
\* counts more packets than were sent, and records one source only (the peer
\* test of the server's receive loop, the connected socket of the client).
THEOREM SentBeforeReceived == Spec => []ReceivedWasSent
<1>1. Inv => ReceivedWasSent
  <2> SUFFICES ASSUME Inv PROVE ReceivedWasSent
    OBVIOUS
  <2>1. OwnDatagrams => stats.packets <= seq
    BY ArrivalsWereSent
  <2>2. ASSUME Filtered
        PROVE  \A i, j \in DOMAIN arrivals : arrivals[i].src = arrivals[j].src
    <3>1. direction \in {"up", "down"}
      BY Constants DEF Inv, TypeOK
    <3> QED
      BY <2>2, <3>1 DEF Inv, Arrived, Filtered
  <2> QED
    BY <2>1, <2>2 DEF ReceivedWasSent
<1> QED
  BY <1>1, Invariance, PTL

\* The average of print_udp rounds down and stays within the bounds.
LEMMA MeanWithin ==
  ASSUME NEW lo \in Nat, NEW hi \in Nat, NEW p \in Nat, NEW s \in Nat, p > 0,
         lo * p <= s, s <= hi * p
  PROVE  s \div p \in lo..hi
<1> DEFINE q == s \div p
           r == s % p
<1>1. q \in Nat /\ r \in Nat /\ r < p /\ s = p * q + r
  OBVIOUS
<1> HIDE DEF q, r
<1>2. lo <= q
  <2>1. SUFFICES ASSUME q + 1 <= lo PROVE FALSE
    BY <1>1
  <2>2. (q + 1) * p <= lo * p
    BY <1>1, <2>1, RateMonotone
  <2>3. (q + 1) * p = p * q + p /\ p * q \in Nat /\ lo * p \in Nat
    BY <1>1
  <2> QED
    BY <1>1, <2>2, <2>3
<1>3. q <= hi
  <2>1. SUFFICES ASSUME hi + 1 <= q PROVE FALSE
    BY <1>1
  <2>2. (hi + 1) * p <= q * p
    BY <1>1, <2>1, RateMonotone
  <2>3. (hi + 1) * p = hi * p + p /\ hi * p \in Nat /\ q * p = p * q /\ p * q \in Nat
    BY <1>1
  <2> QED
    BY <1>1, <2>2, <2>3
<1> QED
  BY <1>1, <1>2, <1>3 DEF q

\* The loss that print_udp prints is exact, and its average is within the
\* extremes, for any loss, duplication and reordering.
THEOREM LossExact == Spec => []LossIsExact
<1>1. Inv => LossIsExact
  <2> SUFFICES ASSUME Inv, OwnDatagrams
               PROVE  LET printed == PrintUdp(seq, stats)
                          arrived == {arrivals[i].seq : i \in DOMAIN arrivals}
                      IN  /\ printed.lost = Cardinality((0..(seq - 1)) \ arrived)
                          /\ arrivals # <<>> =>
                               printed.avg \in Min({LatencyOf(i) : i \in FirstArrivals})..
                                               Max({LatencyOf(i) : i \in FirstArrivals})
    BY DEF LossIsExact
  <2> DEFINE printed == PrintUdp(seq, stats)
             arrived == {arrivals[i].seq : i \in DOMAIN arrivals}
             L == {LatencyOf(i) : i \in FirstArrivals}
             F == Firsts(arrivals)
  <2>1. /\ arrivals \in Seq(Arrival) /\ stats \in StatsType
        /\ Counted(stats, arrivals) /\ Summed(stats, arrivals)
    BY DEF Inv, Matches
  <2>2. printed.lost = Cardinality((0..(seq - 1)) \ arrived)
    <3>1. printed.lost = SaturatingSub(seq, stats.packets)
      BY DEF PrintUdp
    <3>2. stats.seen = arrived
      BY <2>1 DEF Counted
    <3>3. SaturatingSub(seq, stats.packets) = seq - stats.packets
      BY ArrivalsWereSent DEF SaturatingSub
    <3> HIDE DEF printed, arrived
    <3> QED
      BY <3>1, <3>2, <3>3, ArrivalsWereSent
  <2>3. ASSUME arrivals # <<>> PROVE printed.avg \in Min(L)..Max(L)
    <3>1. /\ IsFiniteSet(F) /\ F \subseteq DOMAIN arrivals /\ Cardinality(F) \in Nat
          /\ \A i \in DOMAIN arrivals : Delay(arrivals, i) \in Nat
      BY <2>1, FirstsType
    <3>2. F = FirstArrivals /\ L = {Delay(arrivals, i) : i \in F}
      BY ReferenceSets
    <3>3. F # {}
      <4>1. 1 \in DOMAIN arrivals
        BY <2>1, <2>3
      <4>2. 1..(1 - 1) = {}
        OBVIOUS
      <4> QED
        BY <4>1, <4>2 DEF Firsts
    <3>4. IsFiniteSet(L) /\ L \in SUBSET Nat /\ L # {}
      <4> DEFINE f == [i \in F |-> Delay(arrivals, i)]
      <4>1. IsFiniteSet({f[i] : i \in F})
        BY <3>1, ImageFinite
      <4>2. {f[i] : i \in F} = {Delay(arrivals, i) : i \in F}
        OBVIOUS
      <4> QED
        BY <3>1, <3>2, <3>3, <4>1, <4>2
    <3>5. \A i \in F : Delay(arrivals, i) \in L
      BY <3>2
    <3> HIDE DEF L, F
    <3>6. /\ Max(L) \in Nat /\ Min(L) \in Nat
          /\ \A i \in F : Min(L) <= Delay(arrivals, i) /\ Delay(arrivals, i) <= Max(L)
      <4>1. L \in SUBSET Int
        BY <3>4
      <4>2. /\ Max(L) \in L /\ \A y \in L : Max(L) >= y
            /\ Min(L) \in L /\ \A y \in L : Min(L) <= y
        BY <3>4, <4>1, MaxMin
      <4> QED
        BY <3>4, <3>5, <4>1, <4>2
    <3>7. Min(L) * stats.packets <= stats.latency_sum
            /\ stats.latency_sum <= Max(L) * stats.packets
      BY <2>1, <3>6 DEF Summed, F
    <3>8. stats.packets \in Nat /\ stats.packets > 0 /\ stats.latency_sum \in Nat
      <4>1. stats.packets = Cardinality(F) /\ stats.latency_sum \in Nat
        BY <2>1 DEF Counted, StatsType, F
      <4>2. Cardinality(F) # 0
        BY <3>1, <3>3, FS_EmptySet
      <4> QED
        BY <3>1, <4>1, <4>2
    <3>9. stats.latency_sum \div stats.packets \in Min(L)..Max(L)
      BY <3>6, <3>7, <3>8, MeanWithin
    <3>10. printed.avg = stats.latency_sum \div stats.packets
      BY <3>8 DEF PrintUdp
    <3> HIDE DEF printed
    <3> QED
      BY <3>9, <3>10
  <2> QED
    BY <2>2, <2>3
<1> QED
  BY <1>1, Invariance, PTL

\* The latency figures of an upload whose hello arrives first are the variation
\* of the path delay, as USAGE.md says (the anchoring of the two session starts).
THEOREM AnchoredHonest == Spec => []AnchoredUploadIsHonest
<1>1. Inv => AnchoredUploadIsHonest
  <2> SUFFICES ASSUME Inv, direction = "up", arrivals # <<>>, arrivals[1].seq = 0,
                      arrivals[1].src = "client", NEW i \in FirstArrivals
               PROVE  LatencyOf(i) = SaturatingSub(arrivals[i].delay, arrivals[1].delay)
    BY DEF AnchoredUploadIsHonest, LatencyIsVariation
  <2>1. arrivals \in Seq(Arrival)
    BY DEF Inv, Matches
  <2>2. 1 \in DOMAIN arrivals /\ i \in DOMAIN arrivals
    BY <2>1 DEF FirstArrivals
  <2>3. peer = "client"
    BY <2>2 DEF Inv, Arrived
  <2>4. /\ arrivals[1].recv = 0 /\ arrivals[1].send = 0
        /\ arrivals[1].recv - arrivals[1].send = arrivals[1].delay - r_start
        /\ arrivals[i].recv - arrivals[i].send = arrivals[i].delay - r_start
    BY <2>2, <2>3 DEF Inv, Arrived
  <2>5. /\ arrivals[1].delay \in Nat /\ arrivals[i].delay \in Nat
        /\ arrivals[i].recv \in Nat /\ arrivals[i].send \in Nat
    BY <2>1, <2>2, FirstsType DEF Arrival
  <2>6. r_start \in Int
    BY DEF Inv, TypeOK, NoTime
  <2>7. arrivals[1].delay = r_start
    BY <2>4, <2>5, <2>6
  <2> QED
    BY <2>4, <2>5, <2>7 DEF LatencyOf, SaturatingSub
<1> QED
  BY <1>1, Invariance, PTL
=============================================================================
