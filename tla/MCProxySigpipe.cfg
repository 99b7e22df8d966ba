CONSTANTS
  Threads = {t1, t2}
  Hosts = {h1}
  NoHost = NoHost
  Ports = {p1}
  Uris = {u1}
  Policies <- MCSilent
  Ages = {1}
  NoAge = NoAge
  Times = {2}
  MaxTime = 8
  MaxEntries = 1
  Nullopt = Nullopt
  MaxVersion = 1
  MaxConnections = 2
  Start = 2
  End = 2
SYMMETRY Symmetry
SPECIFICATION Spec
PROPERTY OthersUndisturbed
