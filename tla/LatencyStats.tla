---------------------------- MODULE LatencyStats ----------------------------
(***************************************************************************)
(* The latency statistics of a press run (src/press.rs: LatencyStats).     *)
(* Samples are natural numbers (milliseconds on some scale); the average   *)
(* is kept as the sum beside sample_count, because avg_ms is the quotient  *)
(* of the two.                                                             *)
(***************************************************************************)
EXTENDS Naturals, Sequences, FiniteSets, Functions

\* The number of samples of s that satisfy a comparison with v.
CountBelow(s, v) == Cardinality({i \in DOMAIN s : s[i] < v})
CountUpTo(s, v)  == Cardinality({i \in DOMAIN s : s[i] <= v})

\* The samples in the order they were pushed.
Unsorted(s) == s

\* sort_by(partial_cmp): the i-th place holds the i-th smallest sample.  A
\* sample is a finite non-negative float, so partial_cmp is a total order.
Sorted(s) ==
  [i \in 1..Len(s) |->
     CHOOSE v \in Range(s) : CountBelow(s, v) < i /\ i <= CountUpTo(s, v)]

\* percentile with the index rounded up instead of truncated, and no clamp.
PercentileRoundsUp(sorted, p) ==
  IF Len(sorted) = 0 THEN 0
  ELSE sorted[((p * Len(sorted)) \div 100) + 1]

\* percentile: index floor(p/100 * (n-1)), clamped to the last sample.
Percentile(sorted, p) ==
  IF Len(sorted) = 0 THEN 0
  ELSE LET idx  == (p * (Len(sorted) - 1)) \div 100
           last == Len(sorted) - 1
       IN  sorted[(IF idx > last THEN last ELSE idx) + 1]

\* LatencyStats::default().
DefaultStats ==
  [min_ms |-> 0, max_ms |-> 0, sum_ms |-> 0, p50_ms |-> 0, p90_ms |-> 0,
   p95_ms |-> 0, p99_ms |-> 0, sample_count |-> 0]

\* LatencyStats::from_sorted_ms.
FromSortedMs(sorted) ==
  IF Len(sorted) = 0 THEN DefaultStats
  ELSE [min_ms |-> sorted[1],
        max_ms |-> sorted[Len(sorted)],
        sum_ms |-> SumFunction(sorted),
        p50_ms |-> Percentile(sorted, 50),
        p90_ms |-> Percentile(sorted, 90),
        p95_ms |-> Percentile(sorted, 95),
        p99_ms |-> Percentile(sorted, 99),
        sample_count |-> Len(sorted)]

-----------------------------------------------------------------------------
\* A press latency summary is a monotone cut through its samples: the seven
\* printed figures never decrease in the order they are printed.
Monotone(st) ==
  /\ st.min_ms <= st.p50_ms
  /\ st.p50_ms <= st.p90_ms
  /\ st.p90_ms <= st.p95_ms
  /\ st.p95_ms <= st.p99_ms
  /\ st.p99_ms <= st.max_ms

\* v is an honest p-th percentile of the samples s (a function on a finite
\* set, in no order): with the samples at ranks 0..n-1, rank p/100*(n-1) falls
\* on v or between v and the next larger sample.
IsPercentile(s, p, v) ==
  LET n == Cardinality(DOMAIN s) IN
  /\ v \in Range(s)
  /\ 100 * CountUpTo(s, v) > p * (n - 1)
  /\ 100 * CountBelow(s, v) <= p * (n - 1)

\* The statistics st describe exactly the samples in s.
Describes(st, s) ==
  /\ st.sample_count = Cardinality(DOMAIN s)
  /\ st.sum_ms = SumFunction(s)
  /\ DOMAIN s # {} =>
       /\ {st.min_ms, st.max_ms} \subseteq Range(s)
       /\ \A i \in DOMAIN s : st.min_ms <= s[i] /\ s[i] <= st.max_ms
       /\ IsPercentile(s, 50, st.p50_ms)
       /\ IsPercentile(s, 90, st.p90_ms)
       /\ IsPercentile(s, 95, st.p95_ms)
       /\ IsPercentile(s, 99, st.p99_ms)
=============================================================================
