SPECIFICATION Spec
CONSTANTS
  h1 = h1  h2 = h2  g1 = g1  a1 = a1  a2 = a2  m1 = m1
  Handler <- MCHandler
  Gateway <- NoGateway
  Author <- TwoAuthors
  ClientId <- NoClientId
  Stored <- OneArticle
  Top = 6
  MaxCmds = 3
  MaxExits = 0
  MaxIoErrors = 0
  NoFile = NoFile  Missing = Missing  Nobody = Nobody  NoId = NoId
PROPERTY CancelDeletesNamed
