SPECIFICATION FairSpec
CONSTANTS
  c1 = c1  c2 = c2
  Client <- OneClient
  MaxClients = 1
  MaxAcceptErrors = 0
  None = None
PROPERTY TermHonoured
