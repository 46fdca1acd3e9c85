CONSTANTS
  Users = {boss, ann}
  Founder = boss
  Invitations = {i1, i2}
  Requests = {w1, w2}
  Roles = {"owner", "member"}
  Absences = {"suspended"}
  Seats = 2
  MaxTokens = 2
SYMMETRY Interchangeable
SPECIFICATION Spec
INVARIANTS
  TypeOK
  MembersWereInvited
  LocksAreInUse
PROPERTIES
  InvitationsSettle
  NewestTokenAdmits
  ImplementsAdmissions
CHECK_DEADLOCK FALSE
