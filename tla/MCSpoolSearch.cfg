SPECIFICATION Spec
CONSTANTS
  h1 = h1  h2 = h2  g1 = g1  a1 = a1  a2 = a2  m1 = m1
  Handler <- OneHandler
  Gateway <- NoGateway
  Author <- OneAuthor
  ClientId <- NoClientId
  Stored <- EmptyGroup
  Top = 3
  MaxCmds = 1
  MaxExits = 0
  MaxIoErrors = 0
  NoFile = NoFile  Missing = Missing  Nobody = Nobody  NoId = NoId
INVARIANT SearchWithinRange
