\* One connection: requests that fail early, exchanges and a tunnel.
SPECIFICATION FairSpec
CONSTANTS
  Units <- MCUnits
  Encounters <- MCEncounters
  MaxRecv = 2
  MaxSend = 1
  SizeMax = 255
  NotStored = NotStored
INVARIANTS
  TypeOK
  StopsOnlyWhenComplete
  CachedIsForwarded
  ClosingSideDelivered
PROPERTIES
  ClientToOrigin
  OriginToClient
  EndsWhenPeerLeaves
  LengthEnds
