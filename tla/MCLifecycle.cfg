SPECIFICATION FairSpec
CONSTANTS
  c1 = c1  c2 = c2
  Client <- TwoClients
  MaxClients = 1
  MaxAcceptErrors = 1
  None = None
INVARIANTS
  TypeOK
  WithinLimit
PROPERTIES
  RefusedOnlyWhenFull
  PlaceReturned
  ShutdownEnds
