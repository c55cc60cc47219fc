\* The properties speak of one user at a time: one, with three requests at a time.
SPECIFICATION Spec
CONSTANTS
  Users = {u1}
  Requests = {q1, q2, q3}
  NoUser = NoUser
  SiteAdmin = SiteAdmin
SYMMETRY Symmetry
INVARIANTS
  TypeOK
  MembersCanConnect
PROPERTIES
  BansHold
  RolesGoToo
