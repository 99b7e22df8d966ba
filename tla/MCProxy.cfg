CONSTANTS
  Threads = {t1, t2}
  Hosts = {h1}
  NoHost = NoHost
  Ports = {p1}
  Uris = {u1}
  Policies <- MCPolicies
  Ages = {1, 2}
  NoAge = NoAge
  Times = {2, 3, 4}
  MaxTime = 8
  MaxEntries = 1
  Nullopt = Nullopt
  MaxVersion = 2
  MaxConnections = 3
  Start = 2
  End = 4
SYMMETRY Symmetry
SPECIFICATION Spec
INVARIANTS
  TypeOK
  AnsweredOnce
  OnlyCacheable
PROPERTY BoundedStaleness
