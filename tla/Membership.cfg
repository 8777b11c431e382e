CONSTANTS
  User = {a, u1, u2, u3}
  GlobalAdmin = {a}
  Invitation = {i1, i2}
  FirstInvitation = i1
  Request = {r1, r2}
  Null = Null
  Writer = {w1, w2}
  Content = {x1, x2}
  Client <- AnyClient
  Offered = {"ADMIN", "MEMBER"}
SYMMETRY Symmetry
SPECIFICATION MCSpec
CHECK_DEADLOCK FALSE
INVARIANTS
  MembershipWellFormed
  SoleOwner
  RightsAreThose
PROPERTIES
  RanksRespected
  NoLivePurge
  InvitationsHold
