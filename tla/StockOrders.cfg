SPECIFICATION OrdersSpec
CONSTANTS
  Items = {i1, i2}
  Branches = {b1}
  Units = {u1, u2}
  Imported = {i1, i2}
  Keys = {k1, k2}
  Orders = {o1}
  Txns = {t1, t2}
  Deltas = {}
  MaxQty = 1
  MaxVersion = 4
SYMMETRY StockSymmetry
INVARIANTS ReceiptsMatchOrders
CHECK_DEADLOCK FALSE
