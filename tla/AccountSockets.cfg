SPECIFICATION Spec
CONSTANTS
  Requests = {r1, r2}
  Sessions = {s1}
  Links = {l1}
  Emails = {e1}
  NoEmail = NoEmail
  NoLink = NoLink
  MaxGen = 1
  MaxPw = 1
SYMMETRY IdSymmetry
INVARIANTS
  RevokedSocketsClosed
