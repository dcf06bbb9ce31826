SPECIFICATION PeopleSpec
CONSTANTS
  Requests = {r1, r2, r3}
  Sessions = {s1}
  Links = {l1, l2}
  Emails = {e1, e2}
  NoEmail = NoEmail
  NoLink = NoLink
  MaxGen = 2
  MaxPw = 2
  Txns = {x1}
  Keys = {r1, r2, r3}
  Branches = {b1}
  People = {o, p}
  Owner = o
  Capabilities <- MCCapabilities
  Leaves = {s1}
  Shifts = {l1, l2}
  MaxDay = 2
  Templates = {"early", "night"}
  TaskIds = {s1}
  MaxTaskVersion = 3
SYMMETRY IdSymmetry
INVARIANTS PeopleInv LiveSessionsUseCurrentPassword OneRefreshWins ResetLinksFollowEmail CalendarsAgree RepliesDescribeRequests
PROPERTIES RevokedForGood LinkRedeemedOnce ChangeNeverOverwrites
CHECK_DEADLOCK FALSE
