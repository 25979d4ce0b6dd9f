------------------------- MODULE LatencyStatsProofs -------------------------
(***************************************************************************)
(* The summary of samples pushed one at a time, for any samples and any    *)
(* number of them.                                                         *)
(***************************************************************************)
EXTENDS MCLatencyStats, LatencyFacts

\* Whatever samples are pushed, the summary is printed in increasing order.
THEOREM SummariesMonotone == Spec => []SummaryMonotone
<1> DEFINE Typed == samples \in Seq(Nat)
<1>1. Init => Typed
  BY DEF Init
<1>2. Typed /\ [Next]_samples => Typed'
  BY SamplesAssumption DEF Next, Push
<1>3. Typed => SummaryMonotone
  BY FiguresAscend DEF SummaryMonotone, Summary
<1> QED
  BY <1>1, <1>2, <1>3, PTL DEF Spec

\* Whatever samples are pushed, the summary describes them: how many they are,
\* their sum and extremes, and every percentile by counting.
THEOREM SummariesDescribe == Spec => []SummaryDescribes
<1> DEFINE Typed == samples \in Seq(Nat)
<1>1. Init => Typed
  BY DEF Init
<1>2. Typed /\ [Next]_samples => Typed'
  BY SamplesAssumption DEF Next, Push
<1>3. Typed => SummaryDescribes
  BY SummaryOfSorted DEF SummaryDescribes, Summary
<1> QED
  BY <1>1, <1>2, <1>3, PTL DEF Spec
=============================================================================
