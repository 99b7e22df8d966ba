CONSTANTS
  Keys = {k1, k2, k3}
  Entries = {e1, e2}
  Nodes = {n1, n2, n3}
  Threads = {t1}
  MaxEntries = 2
  Nullopt = Nullopt
SYMMETRY Symmetry
SPECIFICATION USpec
PROPERTY EvictsLeastRecentlyUsed
