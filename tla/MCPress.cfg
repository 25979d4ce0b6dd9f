\* Three requests over two permits, one error slot short of all three.
SPECIFICATION FairSpec
CONSTANTS
  NumRequests = 3
  Concurrency = 2
  Protocols = {"Http1", "Http2", "Http3"}
  Timings <- TwoTimings
  MaxErrors = 2
INVARIANTS
  TypeOK
  PermitsConserved
  OwnedConnectionsBounded
  ReportAccounts
  ErrorsCapped
  ReportDescribesProbes
  ColumnsConsistent
  NeverStuck
PROPERTIES
  PressTerminates
