SPECIFICATION Spec
CONSTANTS
  admin = admin
  ada = ada
  b1 = b1
  b2 = b2
  NoUser = NoUser
  Users <- MCUsers
  Admin = admin
  Directory <- MCDirectory
  Browsers <- MCBrowsers
  TTL = 1
  MaxTime = 2
SYMMETRY Symmetry
INVARIANTS RevokedWithinTTL GrantedWithinTTL
