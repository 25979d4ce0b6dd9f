\* Two HTTP/2 requests, one at a time.
SPECIFICATION Spec
CONSTANTS
  NumRequests = 2
  Concurrency = 1
  Protocols = {"Http2"}
  Timings <- TwoTimings
  MaxErrors = 2
INVARIANTS
  ConnectionsBounded
