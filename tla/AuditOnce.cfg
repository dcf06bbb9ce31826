SPECIFICATION ImportSpec
CONSTANTS
  p1 = p1
  p2 = p2
  Renewals = {r1, r2}
  Keys = {k1}
  Txns = {t1, t2}
  Packages = {p1, p2}
  RenewablePackages = {p1, p2}
  Totals = {0, 1}
  Amounts = {1}
  OperatorEdits <- MCEdits
  MaxTime = 2
  MaxWait = 1
  Requests = {r1, r2}
  PhoneOf <- MCPhoneOf
  AgreedTotals = {1}
  PaidAmounts = {1}
  MaxPrices = 1
  MaxInvitations = 2
  Records = {r1, r2}
  MaxContents = 2
  MaxEvents = 2
  Jobs = {t1}
  Verticals = {"audit"}
INVARIANTS RepresentedOnce
CHECK_DEADLOCK FALSE
