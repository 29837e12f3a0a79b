SPECIFICATION Spec
CONSTANTS
  u1 = u1  p1 = p1
  User <- MCUser
  Password <- MCPassword
  Group <- MCGroup
  Stores <- MCStores
  Stored <- MCStored
  Sound <- MCSound
  Top = 3
  Ranges <- MCRanges
  MaxCmds = 3
  MaxChanges = 2
  NoStore = NoStore  NoRow = NoRow  NoUser = NoUser  NoGroup = NoGroup
  Char <- MCChar
  MaxLength = 3
INVARIANTS
  TypeOK
  ReadsEntitled
  PostsEntitled
  CurrentInGroup
  ListingComplete
  ListedAsMeant
