CONSTANTS
  Keys = {k1, k2, k3}
  Entries = {e1, e2}
  Nodes = {n1, n2, n3}
  Threads = {t1, t2, t3}
  NoThread = NoThread
  MaxEntries = 2
  MaxCalls = 2
  Nullopt = Nullopt
SYMMETRY Symmetry
SPECIFICATION HSpec
INVARIANTS
  TypeOK
  NoTornReads
  ExclusiveWriter
  Progress
PROPERTY ImplementsCache
