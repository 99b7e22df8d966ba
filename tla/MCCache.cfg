CONSTANTS
  Keys = {k1, k2, k3, k4}
  Entries = {e1, e2}
  Nodes = {n1, n2, n3, n4}
  Threads = {t1}
  MaxEntries = 3
  Nullopt = Nullopt
SYMMETRY Symmetry
SPECIFICATION RSpec
INVARIANTS
  RTypeOK
  Coherent
  Bounded
  Retained
  PositionBound
  GetReturnsLatest
PROPERTY ImplementsContract
