SPECIFICATION FairSpec
CONSTANTS
  MaxChars = 2
  MaxSend = 2
  MaxScan = 4
  Talks <- MCTalks
  Mails <- MCMails
  PostLimit = 5
  CCPost = TRUE
  MaxLine = 3
  MaxPostSize = 14
INVARIANTS
  TypeOK
  Framed
  Judged
  ComesBack
PROPERTY BodyEnds
