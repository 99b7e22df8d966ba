SPECIFICATION Spec
CONSTANTS
  Units <- MCUnits
  Encounters <- MCOneGet
  MaxRecv = 2
  MaxSend = 1
  SizeMax = 255
  NotStored = NotStored
INVARIANT HitServesContent
