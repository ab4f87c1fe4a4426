SPECIFICATION Spec
CONSTANTS
  p1 = p1
  p2 = p2
  otherSalt = otherSalt
  ownSalt = ownSalt
  OwnSalt = ownSalt
  Salt = {ownSalt, otherSalt}
  None = None
  Pass = {p1, p2}
  Req = {r1, r2}
  Profile = {q1}
  ForeignArchives <- MCForeignArchives
  MaxSessions = 3
  MaxOpens = 3
  MaxCrashes = 1
SYMMETRY Symmetry
INVARIANT NoHandleWhileRestoring
