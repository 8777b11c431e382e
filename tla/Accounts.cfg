CONSTANTS
  User = {u1, u2}
  Device = {d1, d2}
  Token = {1, 2, 3}
  Link = {l1, l2}
  FirstLink = l1
  Request = {r1, r2}
  Null = Null
  Profiles <- MCProfiles
SYMMETRY Symmetry
SPECIFICATION MCSpec
INVARIANTS
  TokensWellFormed
  JarUsable
PROPERTIES
  SessionsLive
  LogoutAllIsTotal
  LinksHold
