CONSTANTS
  Ages <- MCAges
  NoAge = NoAge
  Times = {3, 5}
  MaxTime = 8
  MaxLines = 3
  MaxControls = 2
  Start = 4
  End = 6
SPECIFICATION Spec
CHECK_DEADLOCK FALSE
INVARIANTS
  TypeOK
  
  FreshIsServed
  ValidationIsAsked
