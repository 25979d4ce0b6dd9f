\* Eight samples separate the p50 rank from the p90 rank; ties are frequent.
SPECIFICATION Spec
CONSTANTS
  SampleValues = {1, 2, 3}
  MaxSamples = 8
INVARIANTS
  SummaryDescribes
  SummaryMonotone
\* Pushing stops at MaxSamples.
CHECK_DEADLOCK FALSE
