\* A connection of any kind (connections share only the listeners and the process);
\* a body of one part.
SPECIFICATION FairSpec
CONSTANTS
  Conns = {1}
  Kinds = {"http1", "https1", "http2", "http3"}
  BodyLen = 1
INVARIANTS
  TypeOK
  
  OthersKeepServing
PROPERTIES
  ConnectionsEnd
\* A server no one uses waits.
CHECK_DEADLOCK FALSE
