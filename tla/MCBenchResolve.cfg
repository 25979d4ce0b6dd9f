\* The documented resolver, without the exceptions of ResolvedAsDocumented.
SPECIFICATION Spec
CONSTANTS
  LenMod = 4
  BindAddrs = {"v4", "v6", "any", "name"}
  Lookups = {"addr", "error", "empty"}
  MaxLabelLen = 3
  MaxNameLen = 6
  Commands = {"test", "press", "benchmark"}
  Hosts <- MCHosts
  Interfaces = {"none", "name", "v4", "v6"}
  Auths <- MCAuths
  Ids = {1, 2}
  Replies <- MCReplies
  Headers <- MCHeaders
  MaxQuic = 2
INVARIANTS
  ResolverAsDocumented
