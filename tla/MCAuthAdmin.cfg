SPECIFICATION MCFairSpec
CONSTANTS
  adm1 = adm1  adm2 = adm2  u1 = u1  u2 = u2  g1 = g1  g2 = g2  p1 = p1
  r = r  rw = rw  d1 = d1
  Admin <- OneAdmin
  User <- MCUser
  Group <- TwoGroups
  Under <- TwoUnder
  Password <- OnePassword
  Perm <- OnePerm
  Desc <- OneDesc
  Steady <- MCSteady
  FromBoot = TRUE
  MaxCmds = 2
  MaxFaults = 1
  NoRow = NoRow  Keep = Keep  All = All  NoStore = NoStore
INVARIANTS
  TypeOK
  SpoolBehindRow
  SteadyUsersKnown
PROPERTIES
  OmittedUnchanged
  ChangesArrive
