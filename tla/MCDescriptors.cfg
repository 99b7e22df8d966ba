CONSTANTS
  Conns = {c1, c2, c3, c4}
  None = None
  MaxFd = 5
SPECIFICATION Spec
SYMMETRY Symmetry
INVARIANTS
  TypeOK
  NothingLeaks
