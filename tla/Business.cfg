SPECIFICATION BusinessSpec
CONSTANTS
  Items = {i1}
  Branches = {b1}
  Units = {u1, u2}
  Imported = {}
  Keys = {k1, k2, k3}
  Orders = {}
  Txns = {t1, t2}
  Deltas <- MCDeltas
  MaxQty = 1
  MaxVersion = 0
  Clients = {1, 2}
  Documents = {d1}
  ClientOf <- MCClientOf
  Offers = {s1}
  Providers = {m1}
  BookingKeys = {u1, u2}
  Requesters = {t1, t2}
  Minutes = {2}
  Starts = {0, 1}
  Releases <- MCReleases
  Deployments = {t1, t2}
  Fills = {u1, u2}
  MaxOpenings = 1
  MaxSent = 3
SYMMETRY StockSymmetry
INVARIANTS BusinessInv NoDeadlock RetriesAgree NoDoubleBooking LinksResolve DeployedIsRelease TakenOnce
PROPERTIES LedgerSpec
CHECK_DEADLOCK FALSE
