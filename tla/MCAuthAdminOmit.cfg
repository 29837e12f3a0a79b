SPECIFICATION Spec
CONSTANTS
  adm1 = adm1  adm2 = adm2  u1 = u1  u2 = u2  g1 = g1  g2 = g2  p1 = p1
  r = r  rw = rw  d1 = d1
  Admin <- TwoAdmins
  User <- MCUser
  Group <- OneGroup
  Under <- OneUnder
  Password <- OnePassword
  Perm <- TwoPerms
  Desc <- OneDesc
  Steady <- MCSteady
  FromBoot = FALSE
  MaxCmds = 2
  MaxFaults = 0
  NoRow = NoRow  Keep = Keep  All = All  NoStore = NoStore
PROPERTY OmittedUnchanged
