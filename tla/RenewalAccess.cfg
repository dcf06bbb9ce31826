SPECIFICATION Spec
CONSTANTS
  p1 = p1
  p2 = p2
  Renewals = {r1, r2}
  Keys = {k1}
  Txns = {t1}
  Packages = {p1, p2}
  RenewablePackages = {p1, p2}
  Totals = {0, 1}
  Amounts = {1}
  OperatorEdits <- MCFewEdits
  MaxTime = 2
  MaxWait = 1
PROPERTIES ContinuousRenewalPreservesAccess
CHECK_DEADLOCK FALSE
