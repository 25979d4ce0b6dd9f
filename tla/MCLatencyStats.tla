--------------------------- MODULE MCLatencyStats ---------------------------
(***************************************************************************)
(* LatencyStats on every sequence of at most MaxSamples samples, built one *)
(* push at a time.                                                         *)
(***************************************************************************)
EXTENDS LatencyStats

CONSTANTS SampleValues, MaxSamples

ASSUME SamplesAssumption == SampleValues \subseteq Nat /\ MaxSamples \in Nat

VARIABLE samples

Init == samples = <<>>

Push(v) == Len(samples) < MaxSamples /\ samples' = Append(samples, v)

Next == \E v \in SampleValues : Push(v)

Spec == Init /\ [][Next]_samples

Summary == FromSortedMs(Sorted(samples))

\* from_sorted_ms of the sorted samples summarises the samples as they were
\* pushed: sum, extremes, and every percentile by counting (no index).
SummaryDescribes == Describes(Summary, samples)

\* The figures are printed in increasing order, from min to max.
SummaryMonotone == Monotone(Summary)
=============================================================================
