SPECIFICATION LeadsSpec
CONSTANTS
  Txns = {t1, t2}
  Keys = {k1}
  Branches = {b1}
  Appointments = {a1}
  MaxDay = 2
  MaxTokens = 2
  People = {o, p}
  Owner = o
  Capabilities <- MCCapabilities
  Leads = {l1}
  Followups = {f1}
  Stages = {s1, s2}
  Recommended <- MCRecommended
  MaxStages = 1
  MaxVersion = 2
  Calls = {t1, t2}
  Workspaces = {w1, w2}
  MaxRevision = 5
PROPERTIES NewAssigneesWork
CHECK_DEADLOCK FALSE
