SPECIFICATION FairSpec
CONSTANTS
  p1 = p1
  p2 = p2
  Renewals = {r1}
  Keys = {k1, k2}
  Txns = {t1, t2}
  Packages = {p1, p2}
  RenewablePackages = {p1, p2}
  Totals = {0, 2}
  Amounts = {1, 2}
  OperatorEdits <- MCSuspension
  MaxTime = 2
  MaxWait = 1
INVARIANTS SettledExactly
PROPERTIES CommandsFinish
CHECK_DEADLOCK FALSE
