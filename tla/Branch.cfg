SPECIFICATION BranchSpec
CONSTANTS
  Txns = {t1, t2}
  Keys = {k1}
  Branches = {b1}
  Appointments = {a1}
  MaxDay = 2
  MaxTokens = 2
  People = {o, p}
  Owner = o
  Capabilities <- MCCapabilities
  Leads = {l1}
  Followups = {f1}
  Stages = {s1}
  Recommended <- MCRecommended
  MaxStages = 1
  MaxVersion = 2
  Calls = {t1, t2}
  Workspaces = {w1, w2}
  MaxRevision = 5
SYMMETRY BranchSymmetry
INVARIANTS BranchInv ArrivalsHaveTokens
PROPERTIES FollowupsOnActiveLeads AnswersStayHome LastChoiceWins
CHECK_DEADLOCK FALSE
